---- MODULE Spec2Model ----
(***************************************************************************)
(* A model of the graph engine of the pear toolkit: the mutable Graph /    *)
(* Vertex / Edge / Path data model (tools/graph/graph.ts) and the          *)
(* GraphSolver traversals (tools/graph/graph-solver.ts) with the Queue and *)
(* Stack frontiers they use.                                               *)
(*                                                                         *)
(* Objects are modelled by handles: vobj[h] and eobj[h] are the fields of  *)
(* the h-th Vertex / Edge object ever constructed.  A JavaScript Map is a  *)
(* sequence of [key, value] entries in insertion order, a JavaScript Set a *)
(* duplicate-free sequence in insertion order.                             *)
(***************************************************************************)
EXTENDS Integers, Sequences, FiniteSets, TLC

\* ------------------------------------------------------------------ bounds
\* Vertex and Edge objects constructed in one run of the graph methods
MaxObjects == 4
\* vertices plus edges of a graph handed to the solver
MaxSolverObjects == 6
\* vertices of a simple undirected graph handed to bidi
MaxSimpleVertices == 6
\* makeSet calls on one DisjointSet
MaxSets == 4
\* vertices plus edges of a weighted graph handed to the kruskal methods
MaxKruskalObjects == 5
\* elements in a Queue, Stack or BinaryHeap built from values of Elements;
\* for a Queue, the pushes made in all
MaxPushes == 5
\* vertices plus edges of a graph whose paths are studied
MaxPathObjects == 3
\* Path objects under study plus the entries of their edge arrays
MaxPathSize == 4
\* SpecJSON: vertices plus edges constructed in G
MaxJsonObjects == 3
\* SpecJSON: entries of v and of e in a value passed to fromJSON
MaxEntries == 2
\* SpecRange: largest argument of range (the tests use range(5, 0))
MaxRange == 5
\* SpecStream: emit() calls on the EventStream
MaxEmits == 3

\* The graphs of the model: the graph under study and a second instance.
Graphs == {"G", "H"}
\* ids a caller may pass explicitly
CallerIds == {"a"}
\* ids produced by crypto.randomUUID(): one fresh id per constructed object
VertexUuids == <<"v1", "v2", "v3", "v4", "v5", "v6", "v7", "v8", "v9", "v10",
                 "v11", "v12", "v13", "v14", "v15", "v16">>
EdgeUuids == <<"e1", "e2", "e3", "e4", "e5", "e6", "e7", "e8", "e9", "e10",
               "e11", "e12", "e13", "e14", "e15", "e16">>
\* marks an omitted optional argument
Omitted == "omitted"

VARIABLES
    vertices,   \* vertices[g]: Graph.vertices, a Map id -> Vertex handle
    edges,      \* edges[g]: Graph.edges, a Map id -> Edge handle
    vobj,       \* the Vertex objects constructed so far
    eobj,       \* the Edge objects constructed so far
    last        \* the most recent call, its arguments and its outcome

gvars == <<vertices, edges, vobj, eobj, last>>

VARIABLES
    pc,         \* position of the solver call: "idle", "run", "done", "diverged"
    root,       \* the root argument
    accept,     \* the vertices the search predicate accepts
    frontier,   \* the Queue (BFS) or Stack (DFS) of the call
    discovered, \* BFS: the WeakSet `discovered`
    backPaths,  \* the Map vertex -> Path
    result,     \* <<>> before the return and for null, <<path>> for a Path
    ins,        \* ins[v]: how often v was inserted into the frontier
    rem,        \* rem[v]: how often v was removed from the frontier
    popHeight,  \* DFS: stack length left by the latest removal of v (-1: none)
    lowSince    \* DFS: least stack length since the latest removal of v

svars == <<pc, root, accept, frontier, discovered, backPaths, result, ins, rem,
           popHeight, lowSince>>

VARIABLES
    left,       \* bidi: the argument `left`
    right,      \* bidi: the argument `right`
    qL,         \* bidi: the Queue of the left side
    qR,         \* bidi: the Queue of the right side
    backL,      \* bidi: the Map vertex -> Path of the left side
    backR,      \* bidi: the Map vertex -> Path of the right side
    seenL,      \* bidi: the Set of vertices seen from the left
    seenR       \* bidi: the Set of vertices seen from the right

bvars == <<left, right, qL, qR, backL, backR, seenL, seenR>>

VARIABLES
    weights,     \* G.weights: the weight function, edge -> number
    sortedEdges, \* kruskalPresorted: what is left of the iterable `sortedEdges`
    forest,      \* kruskalPresorted: the Set `forest`
    djs,         \* a DisjointSet: parent, rank, #map and #mapCount
    joined,      \* the pairs {a, b}, a # b, for which union(a, b) has returned
    remade       \* the elements makeSet was called for while registered

kvars == <<weights, sortedEdges, forest, djs, joined, remade>>

VARIABLES
    kind,       \* the container under study: "Queue", "Stack", "BinaryHeap"
    heap,       \* BinaryHeap.#elements
    queue,      \* the Queue
    stack,      \* the Stack
    held,       \* the elements pushed and not yet removed, oldest first
    ret,        \* what the latest push / pop / peek / next() returned
    it          \* the iteration over the container: "none", "open", "fed"
                \* (open, and an element was pushed since it began), "done",
                \* "doneFed" (done after it was fed)

cvars == <<kind, heap, queue, stack, held, ret, it>>

VARIABLES
    paths,      \* the Path objects under study
    earr        \* earr[i]: the array object that paths[i].edges refers to

pvars == <<paths, earr>>

VARIABLES
    deleted     \* the edges deleteEdge has been applied to

VARIABLES
    vdata,      \* vdata[h]: the field `data` of the Vertex object h
    edata,      \* edata[h]: the field `data` of the Edge object h
    json,       \* the value G.toJSON() returned, or the value the caller holds
    revived,    \* what Graph.fromJSON(json) did: threw, or the Graph it returned
    again       \* what toJSON() of the revived graph returned

jvars == <<vdata, edata, json, revived, again>>

VARIABLES
    rangeArgs,  \* the arguments a, b, c of the call range(a, b, c)
    rangeI,     \* the loop variable i of the generator
    rangeOut,   \* the values the generator has yielded
    rangeDone   \* the generator has returned

rvars == <<rangeArgs, rangeI, rangeOut, rangeDone>>

VARIABLES
    done,       \* EventStream.#done
    events,     \* EventStream.#events
    promise,    \* EventStream.#promise (a promise is a number)
    resolved,   \* the promises that have been resolved
    gen,        \* position of the async generator
    awaited,    \* the promise the generator awaits
    iter,       \* next index of the array iterator of yield*
    received,   \* the events the consumer was given, in order
    emitted,    \* the number of emit() calls made
    startedAt,  \* emitted when the consumer began to iterate
    endedAt     \* emitted when end() was first called

evars == <<done, events, promise, resolved, gen, awaited, iter, received,
           emitted, startedAt, endedAt>>

\* the variables of the utilities that are studied on their own
uvars == <<jvars, rvars, evars>>

\* the variables of the structures that are studied on their own
tvars == <<cvars, pvars, deleted, uvars>>

\* the variables of the components other than the graph and BFS / DFS
ovars == <<bvars, kvars, tvars>>
vars == <<gvars, svars, ovars>>

\* ----------------------------------------------------- JavaScript Map / Set
RECURSIVE SeqFilterKey(_, _)
SeqFilterKey(m, k) ==
    IF m = <<>> THEN <<>>
    ELSE IF Head(m).key = k THEN SeqFilterKey(Tail(m), k)
         ELSE <<Head(m)>> \o SeqFilterKey(Tail(m), k)

MapHas(m, k) == \E i \in 1..Len(m) : m[i].key = k
MapGet(m, k) == m[CHOOSE i \in 1..Len(m) : m[i].key = k].val
MapValues(m) == {m[i].val : i \in 1..Len(m)}
MapKeys(m) == {m[i].key : i \in 1..Len(m)}
\* Map.prototype.set: an existing key keeps its position and gets the new value
MapSet(m, k, x) ==
    IF MapHas(m, k)
    THEN [i \in 1..Len(m) |-> IF m[i].key = k THEN [key |-> k, val |-> x] ELSE m[i]]
    ELSE Append(m, [key |-> k, val |-> x])
MapDelete(m, k) == SeqFilterKey(m, k)

RECURSIVE SeqRemove(_, _)
SeqRemove(s, x) ==
    IF s = <<>> THEN <<>>
    ELSE IF Head(s) = x THEN SeqRemove(Tail(s), x)
         ELSE <<Head(s)>> \o SeqRemove(Tail(s), x)

SetHas(s, x) == \E i \in 1..Len(s) : s[i] = x
SetAdd(s, x) == IF SetHas(s, x) THEN s ELSE Append(s, x)
SetDelete(s, x) == SeqRemove(s, x)
SetElems(s) == {s[i] : i \in 1..Len(s)}

\* ------------------------------------------------------------- Graph model
\* Graph constructor option `directed` of the two instances
GraphDirected(g) == g = "H"

\* The mutable store the Graph methods work on
World == [vertices |-> vertices, edges |-> edges, vobj |-> vobj, eobj |-> eobj]

VertexHandles == 1..Len(vobj)
EdgeHandles == 1..Len(eobj)

\* new Vertex(parentGraph, id, data)
VertexCtor(g, id) == [graph |-> g, id |-> id, adjacentEdges |-> <<>>]

\* Graph.createVertex(data, id)
\* (the new Vertex is the object with handle Len(vobj) + 1)
createVertex(w, g, id) ==
    LET h == Len(w.vobj) + 1 IN
    [w EXCEPT !.vobj = Append(@, VertexCtor(g, id)),
              !.vertices[g] = MapSet(@, id, h)]

\* the guard of the Edge constructor: TRUE when it does not throw
\* (EdgeCtorOKM: the comparison with the parent graph left out)
EdgeCtorOKM(w, g, u, v) == w.vobj[u].graph = w.vobj[v].graph
EdgeCtorOK(w, g, u, v) ==
    ~ (w.vobj[u].graph # w.vobj[v].graph \/ w.vobj[u].graph # g)

\* Graph.createEdge(u, v, data, {id, directed}), when the constructor passes
createEdge(w, g, u, v, id, directed) ==
    LET h == Len(w.eobj) + 1
        E == [graph |-> g, id |-> id, u |-> u, v |-> v, directed |-> directed]
        w1 == [w EXCEPT !.eobj = Append(@, E)]
        w2 == [w1 EXCEPT !.edges[g] = MapSet(@, id, h)]
        w3 == [w2 EXCEPT !.vobj[v].adjacentEdges = SetAdd(@, h)]
    IN  [w3 EXCEPT !.vobj[u].adjacentEdges = SetAdd(@, h)]

\* Graph.deleteEdge(E)
deleteEdge(w, g, e) ==
    LET w1 == [w EXCEPT !.vobj[w.eobj[e].u].adjacentEdges = SetDelete(@, e)]
        w2 == [w1 EXCEPT !.vobj[w.eobj[e].v].adjacentEdges = SetDelete(@, e)]
    IN  [w2 EXCEPT !.edges[g] = MapDelete(@, w.eobj[e].id)]

\* for (const E of V.adjacentEdges) E.delete()
\* E.delete() is E.graph.deleteEdge(E); the Set iterator is live, and every
\* call removes the edge being visited from the set that is iterated.
RECURSIVE deleteAdjacent(_, _)
deleteAdjacent(w, V) ==
    IF w.vobj[V].adjacentEdges = <<>> THEN w
    ELSE LET E == Head(w.vobj[V].adjacentEdges)
         IN  deleteAdjacent(deleteEdge(w, w.eobj[E].graph, E), V)

\* Graph.deleteVertex(V)
\* (deleteVertexM: the cascade over the adjacent edges left out)
deleteVertexM(w, g, V) ==
    [w EXCEPT !.vertices[g] = MapDelete(@, w.vobj[V].id)]
deleteVertex(w, g, V) ==
    LET w1 == deleteAdjacent(w, V)
    IN  [w1 EXCEPT !.vertices[g] = MapDelete(@, w.vobj[V].id)]

\* ------------------------------------------------------------------ actions
\* Calls are made on graph G with any handle constructed so far: vertices
\* and edges of G, handles deleted earlier, and vertices of the other graph.
\* The other graph only ever hosts vertices.  `last` records the call made:
\* op, whether it threw, the handle V or E of a delete, and
\*   pre: createVertex - the id was already a key of G.vertices
\*        createEdge   - u or v belongs to another graph than G
\*        deleteVertex - V was a value of G.vertices
\*        deleteEdge   - E was a value of G.edges
\*        find, union  - an argument was never passed to makeSet
\*   n:   deleteVertex - the number of edges adjacent to V before the call
\*   h, n, len: find - the index of the element in #map, the index returned,
\*        and the number of parent links from the element to its root before
\*        the call
\*   len: union - 1 when a and b were in different sets before the call
NoCall == [op |-> "none", threw |-> FALSE, h |-> 0, pre |-> FALSE, n |-> 0,
           len |-> 0]

Commit(w) ==
    /\ vertices' = w.vertices
    /\ edges' = w.edges
    /\ vobj' = w.vobj
    /\ eobj' = w.eobj

GraphInit ==
    /\ vertices = [g \in Graphs |-> <<>>]
    /\ edges = [g \in Graphs |-> <<>>]
    /\ vobj = <<>>
    /\ eobj = <<>>
    /\ last = NoCall

\* g.createVertex(data, id?)
CreateVertex ==
    \E g \in Graphs, idArg \in CallerIds \cup {Omitted} :
        LET id == IF idArg = Omitted THEN VertexUuids[Len(vobj) + 1] ELSE idArg IN
        /\ Len(vobj) + Len(eobj) < MaxObjects
        /\ g = "H" => idArg = Omitted
        /\ Commit(createVertex(World, g, id))
        /\ last' = [NoCall EXCEPT
                      !.op = IF g = "G" THEN "createVertex" ELSE "createVertexH",
                      !.pre = MapHas(vertices[g], id)]
        /\ UNCHANGED <<svars, ovars>>

\* G.createEdge(u, v, data, {id?})
CreateEdge ==
    \E u \in VertexHandles, v \in VertexHandles, idArg \in CallerIds \cup {Omitted} :
        LET id == IF idArg = Omitted THEN EdgeUuids[Len(eobj) + 1] ELSE idArg
            directed == GraphDirected("G")
            foreign == vobj[u].graph # "G" \/ vobj[v].graph # "G"
        IN
        /\ Len(vobj) + Len(eobj) < MaxObjects
        /\ IF EdgeCtorOK(World, "G", u, v)
           THEN /\ Commit(createEdge(World, "G", u, v, id, directed))
                /\ last' = [NoCall EXCEPT !.op = "createEdge", !.pre = foreign]
           ELSE /\ UNCHANGED <<vertices, edges, vobj, eobj>>
                /\ last' = [NoCall EXCEPT !.op = "createEdge", !.pre = foreign,
                                          !.threw = TRUE]
        /\ UNCHANGED <<svars, ovars>>

\* G.deleteVertex(V)
DeleteVertex ==
    \E V \in VertexHandles :
        /\ Commit(deleteVertex(World, "G", V))
        /\ last' = [NoCall EXCEPT !.op = "deleteVertex", !.h = V,
                                  !.pre = V \in MapValues(vertices["G"]),
                                  !.n = Len(vobj[V].adjacentEdges)]
        /\ deleted' = deleted \cup SetElems(vobj[V].adjacentEdges)
        /\ UNCHANGED <<svars, bvars, kvars, cvars, pvars, uvars>>

\* G.deleteEdge(E)
DeleteEdge ==
    \E E \in EdgeHandles :
        /\ Commit(deleteEdge(World, "G", E))
        /\ last' = [NoCall EXCEPT !.op = "deleteEdge", !.h = E,
                                  !.pre = E \in MapValues(edges["G"])]
        /\ deleted' = deleted \cup {E}
        /\ UNCHANGED <<svars, bvars, kvars, cvars, pvars, uvars>>

GraphNext ==
    \/ CreateVertex
    \/ CreateEdge
    \/ DeleteVertex
    \/ DeleteEdge

\* no solver call is in progress while the graph is being edited
SolverIdle ==
    /\ pc = "idle"
    /\ root = 0
    /\ accept = {}
    /\ frontier = <<>>
    /\ discovered = {}
    /\ backPaths = <<>>
    /\ result = <<>>
    /\ ins = <<>>
    /\ rem = <<>>
    /\ popHeight = <<>>
    /\ lowSince = <<>>

\* no bidi call is in progress
BidiIdle ==
    /\ left = 0
    /\ right = 0
    /\ qL = <<>>
    /\ qR = <<>>
    /\ backL = <<>>
    /\ backR = <<>>
    /\ seenL = <<>>
    /\ seenR = <<>>

\* no kruskal call is in progress and no DisjointSet is under study; the
\* weight function is the default of the Graph constructor, () => 1
KruskalIdle ==
    /\ weights = [e \in EdgeHandles |-> 1]
    /\ sortedEdges = <<>>
    /\ forest = <<>>
    /\ djs = <<>>
    /\ joined = {}
    /\ remade = {}

\* no container is under study
ContainersIdle ==
    /\ kind = "none"
    /\ heap = <<>>
    /\ queue = <<>>
    /\ stack = <<>>
    /\ held = <<>>
    /\ ret = <<>>
    /\ it = "none"

\* no Path is under study
PathsIdle == paths = <<>> /\ earr = <<>>

\* const G = new Graph() of Graph.fromJSON: a graph "R" in a store of its own
NewStore == [vertices |-> [g \in {"R"} |-> <<>>], edges |-> [g \in {"R"} |-> <<>>],
             vobj |-> <<>>, eobj |-> <<>>, vdata |-> <<>>, edata |-> <<>>]

\* no JSON value has been produced or parsed
NoJson == [type |-> "none", s |-> "", items |-> <<>>]
NoResult == [called |-> FALSE, threw |-> FALSE, w |-> NewStore]
JsonIdle ==
    /\ vdata = <<>>
    /\ edata = <<>>
    /\ json = NoJson
    /\ revived = NoResult
    /\ again = NoJson

\* range has not been called
RangeIdle ==
    /\ rangeArgs = <<>>
    /\ rangeI = 0
    /\ rangeOut = <<>>
    /\ rangeDone = FALSE

\* no EventStream has been constructed
StreamIdle ==
    /\ done = FALSE
    /\ events = <<>>
    /\ promise = 0
    /\ resolved = {}
    /\ gen = "none"
    /\ awaited = 0
    /\ iter = 0
    /\ received = <<>>
    /\ emitted = 0
    /\ startedAt = 0
    /\ endedAt = 0

UtilitiesIdle == JsonIdle /\ RangeIdle /\ StreamIdle

\* no structure is under study on its own, and no edge has been deleted
StructuresIdle == ContainersIdle /\ PathsIdle /\ UtilitiesIdle /\ deleted = {}

Init == GraphInit /\ SolverIdle /\ BidiIdle /\ KruskalIdle /\ StructuresIdle
Next == GraphNext
Spec == Init /\ [][Next]_vars

\* ------------------------------------------------------- graph model claims
GVertices == MapValues(vertices["G"])
GEdges == MapValues(edges["G"])
Incident(e, x) == eobj[e].u = x \/ eobj[e].v = x

\* C1: after deleteVertex(v) on a vertex v of G, no edge of G.edges has v as
\* its u or v endpoint, no vertex's adjacentEdges holds an edge incident to
\* v, and v is no longer a value of G.vertices.
C1_DeleteVertexCascades ==
    (last.op = "deleteVertex" /\ last.pre) =>
        /\ \A e \in GEdges : ~ Incident(e, last.h)
        /\ \A x \in VertexHandles : \A e \in SetElems(vobj[x].adjacentEdges) :
               ~ Incident(e, last.h)
        /\ last.h \notin GVertices

\* a vertex with two adjacent edges to a vertex that stays in G was deleted
C1_Witness ==
    /\ last.op = "deleteVertex" /\ last.pre /\ last.n = 2
    /\ \E x \in GVertices : x # last.h /\ \A e \in EdgeHandles :
           Incident(e, x) /\ Incident(e, last.h)

\* C2: every edge that is a value of G.edges has both endpoints present as
\* values of G.vertices.
C2_EdgeEndpointsRegistered ==
    \A e \in GEdges : eobj[e].u \in GVertices /\ eobj[e].v \in GVertices

\* C3: an edge is in the adjacentEdges set of a vertex iff it is a value of
\* G.edges and that vertex is one of its endpoints.
C3_AdjacencyAgreesWithEdgeMap ==
    \A x \in VertexHandles : \A e \in EdgeHandles :
        SetHas(vobj[x].adjacentEdges, e) <=> (e \in GEdges /\ Incident(e, x))

\* C4: createEdge(u, v) on G fails whenever u or v belongs to another graph,
\* and on that failure the vertex map, the edge map and every adjacency set
\* are as before the call.
C4_ForeignEndpointRejected ==
    [][(last'.op = "createEdge" /\ last'.pre)
       => (/\ last'.threw
           /\ vertices' = vertices
           /\ edges' = edges
           /\ vobj' = vobj
           /\ eobj' = eobj)]_vars

\* createEdge was called with a vertex of another graph while G holds a
\* vertex with an adjacent edge
C4_Witness ==
    /\ last.op = "createEdge" /\ last.threw /\ last.pre
    /\ \E x \in GVertices : vobj[x].adjacentEdges # <<>>

\* C5: createVertex(data, id) fails when id is already the key of a vertex
\* in G.vertices, and the vertex registered under that id stays registered.
C5_DuplicateVertexIdRejected ==
    [][(last'.op = "createVertex" /\ last'.pre)
       => (/\ last'.threw
           /\ \A k \in MapKeys(vertices["G"]) :
                  /\ MapHas(vertices'["G"], k)
                  /\ MapGet(vertices'["G"], k) = MapGet(vertices["G"], k))]_vars

\* ------------------------------------------------------------ Queue, Stack
\* A Queue is its private fields #elements (a Record index -> element),
\* #head and #tail; a Stack is #elements and #head.
QueueEmpty == [elements |-> <<>>, head |-> 0, tail |-> 0]
QueueLength(q) == q.tail - q.head
QueuePush(q, x) ==
    [q EXCEPT !.elements = [i \in (DOMAIN q.elements) \cup {q.tail} |->
                                IF i = q.tail THEN x ELSE q.elements[i]],
              !.tail = @ + 1]
\* the element Queue.pop returns on a non-empty queue, and the queue it leaves
QueueFront(q) == q.elements[q.head]
QueuePopped(q) ==
    [q EXCEPT !.elements = [i \in (DOMAIN q.elements) \ {q.head} |-> q.elements[i]],
              !.head = @ + 1]
RECURSIVE QueueOf(_)
QueueOf(initials) ==
    IF initials = <<>> THEN QueueEmpty
    ELSE QueuePush(QueueOf(SubSeq(initials, 1, Len(initials) - 1)),
                   initials[Len(initials)])

StackEmpty == [elements |-> <<>>, head |-> 0]
StackLength(st) == st.head
StackPush(st, x) ==
    [st EXCEPT !.elements = [i \in (DOMAIN st.elements) \cup {st.head} |->
                                 IF i = st.head THEN x ELSE st.elements[i]],
               !.head = @ + 1]
\* the element Stack.pop returns on a non-empty stack, and the stack it leaves
StackTop(st) == st.elements[st.head - 1]
StackPopped(st) ==
    [st EXCEPT !.elements = [i \in (DOMAIN st.elements) \ {st.head - 1} |->
                                 st.elements[i]],
               !.head = @ - 1]
RECURSIVE StackOf(_)
StackOf(initials) ==
    IF initials = <<>> THEN StackEmpty
    ELSE StackPush(StackOf(SubSeq(initials, 1, Len(initials) - 1)),
                   initials[Len(initials)])

\* --------------------------------------------------------------------- Path
\* null for a vertex reference
Null == 0
\* #vertices is <<>> for null and <<array>> for a cached array
PathNew(g, start) == [graph |-> g, start |-> start, edges |-> <<>>, vcache |-> <<>>]
PathAddEdgeThrows(p, e) == eobj[e].graph # p.graph
\* (PathAddEdgeM: #vertices is left as it is)
PathAddEdgeM(p, e) ==
    [p EXCEPT !.start = IF @ = Null THEN eobj[e].u ELSE @,
              !.edges = Append(@, e)]
PathAddEdge(p, e) ==
    [p EXCEPT !.start = IF @ = Null THEN eobj[e].u ELSE @,
              !.edges = Append(@, e),
              !.vcache = <<>>]
\* addEdge(e) with an edge of another graph: what is done before the throw
PathAddEdgeFailed(p, e) ==
    [p EXCEPT !.start = IF @ = Null THEN eobj[e].u ELSE @]
PathCopy(p) == [graph |-> p.graph, start |-> p.start, edges |-> p.edges,
                vcache |-> p.vcache]
\* the loop of the `vertices` getter
RECURSIVE PathWalk(_, _)
PathWalk(current, es) ==
    IF es = <<>> THEN <<>>
    ELSE LET nxt == IF eobj[Head(es)].u # current THEN eobj[Head(es)].u
                    ELSE eobj[Head(es)].v
         IN  <<nxt>> \o PathWalk(nxt, Tail(es))
\* the path after a read of `vertices`: the array is cached unless the path
\* has no start
PathRead(p) ==
    IF p.vcache # <<>> THEN p
    ELSE IF p.start = Null THEN p
    ELSE [p EXCEPT !.vcache = << <<p.start>> \o PathWalk(p.start, p.edges) >>]
PathVertices(p) ==
    IF p.vcache # <<>> THEN p.vcache[1]
    ELSE IF p.start = Null THEN <<>>
    ELSE <<p.start>> \o PathWalk(p.start, p.edges)

\* Edge.not(v)
EdgeNot(e, v) == IF eobj[e].v # v THEN eobj[e].v ELSE eobj[e].u

\* -------------------------------------------------------------- GraphSolver
\* the test `E.directed && v !== E.u` is false: E is followed from v
\* (FollowedM: the test left out)
FollowedM(e, v) == TRUE
Followed(e, v) == ~ (eobj[e].directed /\ v # eobj[e].u)

\* BFS: `!discovered.has(w)`  (BFSUnseenM: the test left out)
BFSUnseenM(d, w) == TRUE
BFSUnseen(d, w) == w \notin d

Bump(f, v) == [f EXCEPT ![v] = @ + 1]

\* BFS: the loop over v.adjacentEdges; st holds the locals of the call
RECURSIVE BFSExpand(_, _, _)
BFSExpand(st, v, adj) ==
    IF adj = <<>> THEN st
    ELSE LET E == Head(adj)
             w == EdgeNot(E, v)
         IN  IF ~ Followed(E, v) THEN BFSExpand(st, v, Tail(adj))
             ELSE IF BFSUnseen(st.discovered, w)
             THEN BFSExpand(
                    [discovered |-> st.discovered \cup {w},
                     backPaths |-> MapSet(st.backPaths, w,
                                     PathAddEdge(PathCopy(MapGet(st.backPaths, v)), E)),
                     frontier |-> QueuePush(st.frontier, w),
                     ins |-> Bump(st.ins, w)],
                    v, Tail(adj))
             ELSE BFSExpand(st, v, Tail(adj))

\* the graphs handed to the solver are built with the Graph methods: the
\* vertices first, then one createEdge per entry of the list.  An undirected
\* edge is listed with u <= v (Edge.not and the direction test treat its two
\* endpoints alike).
EdgeShapes(n) ==
    {sh \in [u : 1..n, v : 1..n, directed : BOOLEAN] : sh.directed \/ sh.u <= sh.v}
EdgeLists(n) == UNION {[1..m -> EdgeShapes(n)] : m \in 0..(MaxSolverObjects - n)}

EmptyWorld == [vertices |-> [g \in Graphs |-> <<>>], edges |-> [g \in Graphs |-> <<>>],
               vobj |-> <<>>, eobj |-> <<>>]
RECURSIVE WithVertices(_, _)
WithVertices(w, n) ==
    IF n = 0 THEN w
    ELSE LET w1 == WithVertices(w, n - 1)
         IN  createVertex(w1, "G", VertexUuids[Len(w1.vobj) + 1])
RECURSIVE WithEdges(_, _)
WithEdges(w, list) ==
    IF list = <<>> THEN w
    ELSE LET w1 == WithEdges(w, SubSeq(list, 1, Len(list) - 1))
             sh == list[Len(list)]
         IN  createEdge(w1, "G", sh.u, sh.v, EdgeUuids[Len(w1.eobj) + 1], sh.directed)
BuildGraph(n, list) == WithEdges(WithVertices(EmptyWorld, n), list)

\* a graph, and a predicate given by the set of vertices it accepts; the
\* root is the first vertex created (the solver never looks at the order of
\* G.vertices, so every other choice is a renaming of this one)
SolverInput ==
    /\ \E n \in 1..MaxSolverObjects : \E list \in EdgeLists(n) :
          LET w == BuildGraph(n, list) IN
          /\ vertices = w.vertices
          /\ edges = w.edges
          /\ vobj = w.vobj
          /\ eobj = w.eobj
    /\ last = NoCall
    /\ root = 1
    /\ accept \in SUBSET VertexHandles
    /\ pc = "run"
    /\ result = <<>>
    /\ rem = [v \in VertexHandles |-> 0]
    /\ ins = [v \in VertexHandles |-> IF v = root THEN 1 ELSE 0]

\* BFS(root, search) up to the loop
BFSInit ==
    /\ SolverInput
    /\ BidiIdle
    /\ KruskalIdle
    /\ StructuresIdle
    /\ frontier = QueueOf(<<root>>)
    /\ discovered = {root}
    /\ backPaths = MapSet(<<>>, root, PathNew("G", root))
    /\ popHeight = <<>>
    /\ lowSince = <<>>

\* one round of `for (const v of queue)`: the iterator pops v, search is
\* called, and either the call returns the path of v or the edges adjacent
\* to v are scanned
BFSVisit ==
    /\ pc = "run"
    /\ QueueLength(frontier) # 0
    /\ LET v == QueueFront(frontier)
           q == QueuePopped(frontier)
       IN  /\ rem' = Bump(rem, v)
           /\ IF v \in accept
              THEN /\ pc' = "done"
                   /\ result' = IF MapHas(backPaths, v)
                                THEN <<MapGet(backPaths, v)>> ELSE <<>>
                   /\ frontier' = q
                   /\ UNCHANGED <<discovered, backPaths, ins>>
              ELSE LET st == BFSExpand([discovered |-> discovered,
                                        backPaths |-> backPaths,
                                        frontier |-> q, ins |-> ins],
                                       v, vobj[v].adjacentEdges)
                   IN  /\ frontier' = st.frontier
                       /\ discovered' = st.discovered
                       /\ backPaths' = st.backPaths
                       /\ ins' = st.ins
                       /\ UNCHANGED <<pc, result>>
    /\ UNCHANGED <<gvars, ovars, root, accept, popHeight, lowSince>>

\* the queue is empty: the loop ends and BFS returns null
BFSExhausted ==
    /\ pc = "run"
    /\ QueueLength(frontier) = 0
    /\ pc' = "done"
    /\ result' = <<>>
    /\ UNCHANGED <<gvars, ovars, root, accept, frontier, discovered, backPaths,
                   ins, rem, popHeight, lowSince>>

BFSNext ==
    \/ BFSVisit
    \/ BFSExhausted

SpecBFS == BFSInit /\ [][BFSNext]_vars

\* ------------------------------------------------------------- BFS claims
\* the vertices one edge away from a vertex of S, by the edge map of G: an
\* edge leads from u to v, and from v to u unless it is directed
Succ(S) ==
    {x \in VertexHandles : \E e \in GEdges, y \in S :
        \/ eobj[e].u = y /\ eobj[e].v = x
        \/ ~ eobj[e].directed /\ eobj[e].v = y /\ eobj[e].u = x}
\* the vertices at the end of a walk of at most k edges from the root
RECURSIVE Within(_)
Within(k) == IF k = 0 THEN {root} ELSE Within(k - 1) \cup Succ(Within(k - 1))
Reachable == Within(Cardinality(VertexHandles))
Last(sq) == sq[Len(sq)]

\* C6: a path returned by BFS starts at the root, ends at a vertex the
\* predicate accepts, and no accepted vertex is reachable from the root by
\* a walk with fewer edges.
C6_BFSShortest ==
    (pc = "done" /\ result # <<>>) =>
        LET P == result[1] IN
        /\ P.start = root
        /\ Last(PathVertices(P)) \in accept
        /\ \A k \in 0..(Len(P.edges) - 1) : Within(k) \cap accept = {}

\* BFS returned a two-edge path in a graph of three edges
C6_Witness ==
    /\ pc = "done" /\ result # <<>>
    /\ Len(result[1].edges) = 2
    /\ Cardinality(Reachable \cap accept) = 1
    /\ Cardinality(GEdges) = 3

\* C7: BFS returns null iff no vertex reachable from the root (directed
\* edges from u to v only) is accepted by the predicate.
C7_BFSNullIffUnreachable ==
    pc = "done" => (result = <<>> <=> Reachable \cap accept = {})

\* BFS returned null although an accepted vertex has a directed edge into
\* the root
C7_Witness ==
    /\ pc = "done" /\ result = <<>>
    /\ \E e \in GEdges : eobj[e].directed /\ eobj[e].v = root
                         /\ eobj[e].u # root /\ eobj[e].u \in accept

\* ---------------------------------------------------------------------- DFS
\* DFS: the loop over v.adjacentEdges; every followed edge pushes its other
\* endpoint and replaces that vertex's entry of backPaths
RECURSIVE DFSExpand(_, _, _)
DFSExpand(st, v, adj) ==
    IF adj = <<>> THEN st
    ELSE LET E == Head(adj)
             w == EdgeNot(E, v)
         IN  IF ~ Followed(E, v) THEN DFSExpand(st, v, Tail(adj))
             ELSE DFSExpand(
                    [frontier |-> StackPush(st.frontier, w),
                     backPaths |-> MapSet(st.backPaths, w,
                                     PathAddEdge(PathCopy(MapGet(st.backPaths, v)), E)),
                     ins |-> Bump(st.ins, w)],
                    v, Tail(adj))

Min(a, b) == IF a < b THEN a ELSE b

\* The loop of DFS is deterministic and what it does after popping v depends
\* on v and on the entries pushed since.  When v is popped again, leaving at
\* least as many entries as its previous pop left, and the stack never got
\* shorter than that in between, the rounds since the previous pop of v used
\* only entries pushed after it: they repeat from here on, on a stack that
\* never shrinks below its present length, and the call never returns.
DFSRepeats(v, h) ==
    /\ popHeight[v] >= 0
    /\ lowSince[v] >= popHeight[v]
    /\ h >= popHeight[v]

\* DFS(root, search) up to the loop
DFSInit ==
    /\ SolverInput
    /\ BidiIdle
    /\ KruskalIdle
    /\ StructuresIdle
    /\ frontier = StackOf(<<root>>)
    /\ discovered = {}
    /\ backPaths = MapSet(<<>>, root, PathNew("G", root))
    /\ popHeight = [v \in VertexHandles |-> -1]
    /\ lowSince = [v \in VertexHandles |-> 0]

\* one round of `for (const v of stack)`
DFSVisit ==
    /\ pc = "run"
    /\ StackLength(frontier) # 0
    /\ LET v == StackTop(frontier)
           sk == StackPopped(frontier)
           h == StackLength(sk)
       IN  /\ ~ DFSRepeats(v, h)
           /\ rem' = Bump(rem, v)
           /\ popHeight' = [popHeight EXCEPT ![v] = h]
           /\ lowSince' = [x \in VertexHandles |->
                             IF x = v THEN h ELSE Min(lowSince[x], h)]
           /\ IF v \in accept
              THEN /\ pc' = "done"
                   /\ result' = IF MapHas(backPaths, v)
                                THEN <<MapGet(backPaths, v)>> ELSE <<>>
                   /\ frontier' = sk
                   /\ UNCHANGED <<backPaths, ins>>
              ELSE LET st == DFSExpand([frontier |-> sk, backPaths |-> backPaths,
                                        ins |-> ins],
                                       v, vobj[v].adjacentEdges)
                   IN  /\ frontier' = st.frontier
                       /\ backPaths' = st.backPaths
                       /\ ins' = st.ins
                       /\ UNCHANGED <<pc, result>>
    /\ UNCHANGED <<gvars, ovars, root, accept, discovered>>

\* the loop has entered rounds that repeat for ever: the call does not return
DFSDiverges ==
    /\ pc = "run"
    /\ StackLength(frontier) # 0
    /\ DFSRepeats(StackTop(frontier), StackLength(frontier) - 1)
    /\ pc' = "diverged"
    /\ UNCHANGED <<gvars, ovars, root, accept, frontier, discovered, backPaths,
                   result, ins, rem, popHeight, lowSince>>

\* the stack is empty: the loop ends and DFS returns null
DFSExhausted ==
    /\ pc = "run"
    /\ StackLength(frontier) = 0
    /\ pc' = "done"
    /\ result' = <<>>
    /\ UNCHANGED <<gvars, ovars, root, accept, frontier, discovered, backPaths,
                   ins, rem, popHeight, lowSince>>

DFSNext ==
    \/ DFSVisit
    \/ DFSDiverges
    \/ DFSExhausted

SpecDFS == DFSInit /\ [][DFSNext]_vars

\* ------------------------------------------------------------- DFS claims
\* walking from `current`, every edge is incident to the vertex reached so far
RECURSIVE JoinedFrom(_, _)
JoinedFrom(current, es) ==
    \/ es = <<>>
    \/ /\ Incident(Head(es), current)
       /\ JoinedFrom(EdgeNot(Head(es), current), Tail(es))

\* the call is over: it returned, or it never will
Settled == pc \in {"done", "diverged"}

\* C8: when some vertex reachable from the root is accepted, DFS terminates
\* and returns a Path that starts at the root, whose edges are joined end to
\* end, and whose last vertex is accepted.
C8_DFSReturnsPath ==
    (Settled /\ Reachable \cap accept # {}) =>
        /\ pc = "done"
        /\ result # <<>>
        /\ result[1].start = root
        /\ JoinedFrom(root, result[1].edges)
        /\ Last(PathVertices(result[1])) \in accept

\* C9: when no vertex satisfies the predicate, DFS terminates and returns
\* null.
C9_DFSReturnsNull ==
    (Settled /\ accept = {}) => (pc = "done" /\ result = <<>>)

\* ------------------------------------------------------- frontier accounting
RECURSIVE Sum(_, _)
Sum(f, S) == IF S = {} THEN 0
             ELSE LET x == CHOOSE y \in S : TRUE IN f[x] + Sum(f, S \ {x})

\* C10: in one call every vertex is inserted into and removed from the
\* frontier at most once, so the call removes at most |V| vertices.
C10_FrontierOncePerVertex ==
    pc # "idle" =>
        /\ \A v \in VertexHandles : ins[v] <= 1 /\ rem[v] <= 1
        /\ Sum(rem, VertexHandles) <= Cardinality(GVertices)

\* --------------------------------------------------------------------- bidi
\* the test `E.directed && r !== E.v` is false: E is followed backwards from r
\* (FollowedBackM: the right side follows the arrows like the left side)
FollowedBackM(e, r) == ~ (eobj[e].directed /\ r # eobj[e].u)
FollowedBack(e, r) == ~ (eobj[e].directed /\ r # eobj[e].v)

\* bidi: the loop over l.adjacentEdges; st holds seen, back and q of the side
RECURSIVE BidiExpandL(_, _, _)
BidiExpandL(st, l, adj) ==
    IF adj = <<>> THEN st
    ELSE LET E == Head(adj)
             w == EdgeNot(E, l)
         IN  IF ~ Followed(E, l) THEN BidiExpandL(st, l, Tail(adj))
             ELSE IF ~ SetHas(st.seen, w)
             THEN BidiExpandL(
                    [seen |-> SetAdd(st.seen, w),
                     back |-> MapSet(st.back, w,
                                PathAddEdge(PathCopy(MapGet(st.back, l)), E)),
                     q |-> QueuePush(st.q, w)],
                    l, Tail(adj))
             ELSE BidiExpandL(st, l, Tail(adj))

\* bidi: the loop over r.adjacentEdges
RECURSIVE BidiExpandR(_, _, _)
BidiExpandR(st, r, adj) ==
    IF adj = <<>> THEN st
    ELSE LET E == Head(adj)
             w == EdgeNot(E, r)
         IN  IF ~ FollowedBack(E, r) THEN BidiExpandR(st, r, Tail(adj))
             ELSE IF ~ SetHas(st.seen, w)
             THEN BidiExpandR(
                    [seen |-> SetAdd(st.seen, w),
                     back |-> MapSet(st.back, w,
                                PathAddEdge(PathCopy(MapGet(st.back, r)), E)),
                     q |-> QueuePush(st.q, w)],
                    r, Tail(adj))
             ELSE BidiExpandR(st, r, Tail(adj))

\* Array.prototype.reverse  (ReverseM: the order is kept)
ReverseM(sq) == sq
RECURSIVE Reverse(_)
Reverse(sq) == IF sq = <<>> THEN <<>> ELSE Reverse(Tail(sq)) \o <<Head(sq)>>

\* [...sL].find(x => sR.has(x)): <<>> for undefined, <<x>> for a vertex
RECURSIVE Midpoint(_, _)
Midpoint(sL, sR) ==
    IF sL = <<>> THEN <<>>
    ELSE IF SetHas(sR, Head(sL)) THEN <<Head(sL)>>
    ELSE Midpoint(Tail(sL), sR)

\* path.edges.push(...es): the array is extended in place, the start and
\* the cache of the vertices are left as they are
\* (PathEdgesPushM: nothing is pushed)
PathEdgesPushM(p, es) == p
PathEdgesPush(p, es) == [p EXCEPT !.edges = @ \o es]

\* bidi(left, right) up to the loop, for a graph and two of its vertices
BidiStart ==
    /\ pc = "run"
    /\ result = <<>>
    /\ root = 0
    /\ accept = {}
    /\ frontier = <<>>
    /\ discovered = {}
    /\ backPaths = <<>>
    /\ ins = <<>>
    /\ rem = <<>>
    /\ popHeight = <<>>
    /\ lowSince = <<>>
    /\ qL = QueueOf(<<left>>)
    /\ qR = QueueOf(<<right>>)
    /\ backL = MapSet(<<>>, left, PathNew("G", left))
    /\ backR = MapSet(<<>>, right, PathNew("G", right))
    /\ seenL = <<left>>
    /\ seenR = <<right>>
    /\ KruskalIdle
    /\ StructuresIdle

\* one round of `while (qL.length && qR.length)`
BidiRound ==
    /\ pc = "run"
    /\ QueueLength(qL) # 0 /\ QueueLength(qR) # 0
    /\ LET l == QueueFront(qL)
           r == QueueFront(qR)
           sl == BidiExpandL([seen |-> seenL, back |-> backL, q |-> QueuePopped(qL)],
                             l, vobj[l].adjacentEdges)
           sr == BidiExpandR([seen |-> seenR, back |-> backR, q |-> QueuePopped(qR)],
                             r, vobj[r].adjacentEdges)
           midpoint == Midpoint(sl.seen, sr.seen)
       IN  /\ qL' = sl.q
           /\ qR' = sr.q
           /\ seenL' = sl.seen
           /\ seenR' = sr.seen
           /\ backL' = sl.back
           /\ IF midpoint = <<>>
              THEN /\ backR' = sr.back
                   /\ UNCHANGED <<pc, result>>
              ELSE LET m == midpoint[1]
                       reversed == Reverse(MapGet(sr.back, m).edges)
                   IN  /\ backR' = MapSet(sr.back, m,
                                     [MapGet(sr.back, m) EXCEPT !.edges = reversed])
                       /\ result' = <<PathEdgesPush(PathCopy(MapGet(sl.back, m)),
                                                    reversed)>>
                       /\ pc' = "done"
    /\ UNCHANGED <<gvars, kvars, tvars, left, right, root, accept, frontier, discovered,
                   backPaths, ins, rem, popHeight, lowSince>>

\* one of the queues is empty: the loop ends and bidi returns null
BidiExhausted ==
    /\ pc = "run"
    /\ QueueLength(qL) = 0 \/ QueueLength(qR) = 0
    /\ pc' = "done"
    /\ result' = <<>>
    /\ UNCHANGED <<gvars, kvars, tvars, bvars, root, accept, frontier, discovered,
                   backPaths, ins, rem, popHeight, lowSince>>

BidiNext ==
    \/ BidiRound
    \/ BidiExhausted

\* bidi on the graphs the other searches are run on
BidiInit ==
    /\ \E n \in 1..MaxSolverObjects : \E list \in EdgeLists(n) :
          LET w == BuildGraph(n, list) IN
          /\ vertices = w.vertices
          /\ edges = w.edges
          /\ vobj = w.vobj
          /\ eobj = w.eobj
    /\ last = NoCall
    /\ left = 1
    /\ right \in VertexHandles
    /\ BidiStart

SpecBidi == BidiInit /\ [][BidiNext]_vars

\* bidi on larger graphs: simple undirected graphs of up to
\* MaxSimpleVertices vertices with at most as many edges as vertices, in
\* which every vertex but possibly the last is joined to the first; the
\* edges are created in the order of their endpoints, and the search goes
\* from the first vertex created to the last
Pairs(n) == {p \in (1..n) \X (1..n) : p[1] < p[2]}
PairBefore(p, q) == p[1] < q[1] \/ (p[1] = q[1] /\ p[2] < q[2])
RECURSIVE PairList(_)
PairList(S) ==
    IF S = {} THEN <<>>
    ELSE LET p == CHOOSE x \in S : \A y \in S \ {x} : PairBefore(x, y)
         IN  <<[u |-> p[1], v |-> p[2], directed |-> FALSE]>> \o PairList(S \ {p})

\* the vertices joined to a vertex of C by the pairs of S
RECURSIVE Component(_, _)
Component(S, C) ==
    LET D == C \cup {p[1] : p \in {q \in S : q[2] \in C}}
                \cup {p[2] : p \in {q \in S : q[1] \in C}}
    IN  IF D = C THEN C ELSE Component(S, D)
SimpleGraphs(n) ==
    {T \in SUBSET Pairs(n) :
        /\ Cardinality(T) <= n
        /\ 1..(n - 1) \subseteq Component(T, {1})}

BidiSimpleInit ==
    /\ \E n \in 2..MaxSimpleVertices :
         \E S \in SimpleGraphs(n) :
          LET w == BuildGraph(n, PairList(S)) IN
          /\ vertices = w.vertices
          /\ edges = w.edges
          /\ vobj = w.vobj
          /\ eobj = w.eobj
    /\ last = NoCall
    /\ left = 1
    /\ right = Len(vobj)
    /\ BidiStart

SpecBidiSimple == BidiSimpleInit /\ [][BidiNext]_vars

\* ------------------------------------------------------------- bidi claims
\* the vertices at the end of a walk of at most k edges from x
RECURSIVE WithinOf(_, _)
WithinOf(x, k) ==
    IF k = 0 THEN {x} ELSE WithinOf(x, k - 1) \cup Succ(WithinOf(x, k - 1))
\* there is a walk from x to y
Walk(x, y) == y \in WithinOf(x, Cardinality(VertexHandles))

\* es is a walk from `current` that ends at `target`: every edge is incident
\* to the vertex reached so far, and a directed edge is left at its u
RECURSIVE WalkTo(_, _, _)
WalkTo(current, es, target) ==
    IF es = <<>> THEN current = target
    ELSE /\ Incident(Head(es), current)
         /\ eobj[Head(es)].directed => eobj[Head(es)].u = current
         /\ WalkTo(EdgeNot(Head(es), current), Tail(es), target)

C12_BidiNullIffNoWalk ==
    /\ pc = "run" =>
          /\ qL.tail <= Cardinality(VertexHandles)
          /\ qR.tail <= Cardinality(VertexHandles)
          /\ qL.head = qR.head
    /\ pc = "done" => (result = <<>> <=> ~ Walk(left, right))

\* bidi returned null after two rounds although both sides saw other vertices
C12_Witness ==
    /\ pc = "done" /\ result = <<>>
    /\ qL.head = 2
    /\ Len(seenL) > 1 /\ Len(seenR) > 1

\* the least number of edges of a walk from x to y
Dist(x, y) == CHOOSE k \in 0..Cardinality(VertexHandles) :
                  /\ y \in WithinOf(x, k)
                  /\ \A j \in 0..(k - 1) : y \notin WithinOf(x, j)

\* C13: a path returned by bidi is a shortest one: no walk from left to
\* right has fewer edges.
C13_BidiShortest ==
    (pc = "done" /\ result # <<>>) =>
        Len(result[1].edges) = Dist(left, right)

\* G is the undirected path graph v1 - v2 - ... - vn, n >= 2, its edges
\* created in path order
PathGraph ==
    /\ Len(vobj) >= 2
    /\ GVertices = VertexHandles
    /\ GEdges = EdgeHandles
    /\ Len(eobj) = Len(vobj) - 1
    /\ \A i \in EdgeHandles :
          eobj[i].u = i /\ eobj[i].v = i + 1 /\ ~ eobj[i].directed

\* C14: on the path graph v1 - ... - vn, bidi(v1, vn) returns the path whose
\* vertices are v1, ..., vn and whose edges are the n-1 path edges in order.
C14_BidiOnPathGraph ==
    (pc = "done" /\ PathGraph /\ left = 1 /\ right = Len(vobj)) =>
        /\ result # <<>>
        /\ result[1].edges = [i \in 1..(Len(vobj) - 1) |-> i]
        /\ PathVertices(result[1]) = [i \in 1..Len(vobj) |-> i]

\* bidi returned the four edges of A - B - C - D - E
C14_Witness ==
    /\ pc = "done" /\ PathGraph /\ Len(vobj) = 5
    /\ left = 1 /\ right = 5
    /\ result # <<>> /\ Len(result[1].edges) = 4

\* -------------------------------------------------------------- DisjointSet
\* A JavaScript array is a function on 0..length-1.
ArrLen(a) == Cardinality(DOMAIN a)
ArrPush(a, x) == [i \in 0..ArrLen(a) |-> IF i = ArrLen(a) THEN x ELSE a[i]]

\* new DisjointSet(): parent, rank, #map and #mapCount
DisjointSetNew == [parent |-> <<>>, rank |-> <<>>, map |-> <<>>, mapCount |-> 0]

\* DisjointSet.makeSet(element)
makeSet(d, element) ==
    [parent |-> ArrPush(d.parent, d.mapCount),
     rank |-> ArrPush(d.rank, 0),
     map |-> MapSet(d.map, element, d.mapCount),
     mapCount |-> d.mapCount + 1]

\* the root of the tree of an index, and the indices from it up to the root
RECURSIVE RootOf(_, _)
RootOf(d, index) == IF d.parent[index] = index THEN index ELSE RootOf(d, d.parent[index])
RECURSIVE ChainOf(_, _)
ChainOf(d, index) ==
    IF d.parent[index] = index THEN {index} ELSE {index} \cup ChainOf(d, d.parent[index])

\* DisjointSet.findIndex(index): the set it leaves and the index it returns
\* (findIndexM: the root is looked up, no parent is re-pointed)
RECURSIVE findIndex(_, _)
findIndexM(d, index) == [d |-> d, ret |-> RootOf(d, index)]
findIndex(d, index) ==
    IF d.parent[index] # index
    THEN LET r == findIndex(d, d.parent[index])
             d1 == [r.d EXCEPT !.parent[index] = r.ret]
         IN  [d |-> d1, ret |-> d1.parent[index]]
    ELSE [d |-> d, ret |-> d.parent[index]]

\* DisjointSet.find(element): throws when #map has no index for the element
findThrows(d, element) == ~ MapHas(d.map, element)
find(d, element) == findIndex(d, MapGet(d.map, element))

\* the rank comparison of union, for two different roots
\* (linkM: bIndex is attached under aIndex whatever the ranks)
linkM(d2, aIndex, bIndex) ==
    [d2 EXCEPT !.parent[bIndex] = aIndex,
               !.rank[aIndex] = IF d2.rank[aIndex] = d2.rank[bIndex] THEN @ + 1 ELSE @]
link(d2, aIndex, bIndex) ==
    IF d2.rank[aIndex] < d2.rank[bIndex]
    THEN [d2 EXCEPT !.parent[aIndex] = bIndex]
    ELSE IF d2.rank[aIndex] > d2.rank[bIndex]
    THEN [d2 EXCEPT !.parent[bIndex] = aIndex]
    ELSE [d2 EXCEPT !.parent[bIndex] = aIndex, !.rank[aIndex] = @ + 1]

\* DisjointSet.union(a, b) for registered a and b
\* (unionM: the element b itself, not its root, is attached)
unionM(d, a, b) ==
    LET fa == find(d, a)
        bIndex == MapGet(d.map, b)
    IN  IF fa.ret = bIndex THEN fa.d
        ELSE [fa.d EXCEPT !.parent[bIndex] = fa.ret]
union(d, a, b) ==
    LET fa == find(d, a)
        fb == find(fa.d, b)
        d2 == fb.d
        aIndex == fa.ret
        bIndex == fb.ret
    IN  IF aIndex = bIndex THEN d2
        ELSE link(d2, aIndex, bIndex)

\* the sets of a DisjointSet, as sets of indices
DjsSets(d) ==
    {{j \in DOMAIN d.parent : RootOf(d, j) = RootOf(d, i)} :
        i \in DOMAIN d.parent}

\* every index has the same root in both, so that their sets are the same
SameSets(d1, d2) ==
    /\ DOMAIN d1.parent = DOMAIN d2.parent
    /\ \A j \in DOMAIN d1.parent : RootOf(d1, j) = RootOf(d2, j)

\* the elements handed to the DisjointSet under study
DjsElements == {"v1", "v2", "v3", "v4"}

\* a DisjointSet on its own: no graph, no solver call
DjsInit ==
    /\ GraphInit
    /\ SolverIdle
    /\ BidiIdle
    /\ StructuresIdle
    /\ weights = <<>>
    /\ sortedEdges = <<>>
    /\ forest = <<>>
    /\ djs = DisjointSetNew
    /\ joined = {}
    /\ remade = {}

\* the elements makeSet is called for: a registered one, or the first one
\* not yet registered (the elements are alike until they are registered)
DjsNextElements(d) ==
    {x \in DjsElements :
        \/ MapHas(d.map, x)
        \/ \E i \in 1..Len(VertexUuids) :
              /\ x = VertexUuids[i]
              /\ \A j \in 1..(i - 1) : MapHas(d.map, VertexUuids[j])}

\* djs.makeSet(element); last.pre: the element was registered already
DjsMakeSet ==
    \E element \in DjsNextElements(djs) :
        /\ djs.mapCount < MaxSets
        /\ djs' = makeSet(djs, element)
        /\ remade' = IF MapHas(djs.map, element) THEN remade \cup {element}
                     ELSE remade
        /\ last' = [NoCall EXCEPT !.op = "makeSet", !.pre = MapHas(djs.map, element)]
        /\ UNCHANGED <<vertices, edges, vobj, eobj, svars, bvars, tvars, weights,
                       sortedEdges, forest, joined>>

\* djs.find(element); last.n: the index returned
\* (DjsFindM: an element without an index is registered on the spot)
DjsFindM ==
    \E element \in DjsElements :
        /\ LET d1 == IF MapHas(djs.map, element) THEN djs
                     ELSE makeSet(djs, element)
           IN  /\ last' = [NoCall EXCEPT !.op = "find",
                                         !.pre = ~ MapHas(djs.map, element),
                                         !.h = MapGet(d1.map, element),
                                         !.len = Cardinality(ChainOf(d1,
                                                     MapGet(d1.map, element))) - 1,
                                         !.n = find(d1, element).ret]
               /\ djs' = find(d1, element).d
        /\ UNCHANGED <<vertices, edges, vobj, eobj, svars, bvars, tvars, weights,
                       sortedEdges, forest, joined, remade>>
DjsFind ==
    \E element \in DjsElements :
        /\ IF findThrows(djs, element)
           THEN /\ last' = [NoCall EXCEPT !.op = "find", !.threw = TRUE,
                                          !.pre = ~ MapHas(djs.map, element)]
                /\ UNCHANGED djs
           ELSE /\ last' = [NoCall EXCEPT !.op = "find",
                                          !.pre = ~ MapHas(djs.map, element),
                                          !.h = MapGet(djs.map, element),
                                          !.len = Cardinality(ChainOf(djs,
                                                      MapGet(djs.map, element))) - 1,
                                          !.n = find(djs, element).ret]
                /\ djs' = find(djs, element).d
        /\ UNCHANGED <<vertices, edges, vobj, eobj, svars, bvars, tvars, weights,
                       sortedEdges, forest, joined, remade>>

\* djs.union(a, b): find(a), then find(b), either of which may throw
DjsUnion ==
    \E a \in DjsElements, b \in DjsElements :
        /\ IF findThrows(djs, a)
           THEN /\ last' = [NoCall EXCEPT !.op = "union", !.threw = TRUE,
                                          !.pre = TRUE]
                /\ UNCHANGED <<djs, joined>>
           ELSE IF findThrows(djs, b)
           THEN /\ last' = [NoCall EXCEPT !.op = "union", !.threw = TRUE,
                                          !.pre = TRUE]
                /\ djs' = find(djs, a).d
                /\ UNCHANGED joined
           ELSE /\ last' = [NoCall EXCEPT !.op = "union",
                                          !.len = IF RootOf(djs, MapGet(djs.map, a))
                                                     # RootOf(djs, MapGet(djs.map, b))
                                                  THEN 1 ELSE 0]
                /\ djs' = union(djs, a, b)
                /\ joined' = IF a = b THEN joined ELSE joined \cup {{a, b}}
        /\ UNCHANGED <<vertices, edges, vobj, eobj, svars, bvars, tvars, weights,
                       sortedEdges, forest, remade>>

DjsNext ==
    \/ DjsMakeSet
    \/ DjsFind
    \/ DjsUnion

SpecDjs == DjsInit /\ [][DjsNext]_vars

\* ------------------------------------------------------ DisjointSet claims
\* C20: once union(a, b) has returned, find(a) = find(b) at every later
\* point, whatever find, union and makeSet calls for elements not yet
\* registered come in between.
C20_UnionIsPermanent ==
    remade = {} =>
        \A p \in joined : \A a \in p, b \in p :
            find(djs, a).ret = find(djs, b).ret

\* C21: find(x) for an element x never passed to makeSet throws and leaves
\* parent and rank as they were; union with such an argument throws too and
\* merges no two sets.
C21_UnregisteredThrows ==
    [][(last'.op \in {"find", "union"} /\ last'.pre) =>
          /\ last'.threw
          /\ last'.op = "find" => djs' = djs
          /\ DjsSets(djs') = DjsSets(djs)
          /\ djs'.rank = djs.rank
          /\ djs'.map = djs.map
          /\ djs'.mapCount = djs.mapCount]_vars

\* union(a, b) has thrown for an unregistered b after find(a) ran on a set
\* of three elements or more
C21_Witness ==
    /\ last.op = "union" /\ last.threw /\ last.pre
    /\ djs.mapCount >= 3
    /\ \E i \in DOMAIN djs.rank : djs.rank[i] >= 1
    /\ Cardinality(DjsSets(djs)) < djs.mapCount

\* unions have returned, and they built a set of rank 2 in which an element
\* is two steps away from its representative
C20_Witness ==
    /\ remade = {}
    /\ Cardinality(joined) >= 2
    /\ djs.mapCount = 4
    /\ \E i \in DOMAIN djs.rank : djs.rank[i] = 2
    /\ \E i \in DOMAIN djs.parent : djs.parent[djs.parent[i]] # djs.parent[i]

\* ------------------------------------------------------------------ kruskal
\* the values of G.weights
Weights == {1, 2}

\* Array.from(map.values())
MapValueSeq(m) == [i \in 1..Len(m) |-> m[i].val]
\* new Map(entries)
RECURSIVE MapFromEntries(_)
MapFromEntries(entries) ==
    IF entries = <<>> THEN <<>>
    ELSE LET e == entries[Len(entries)]
         IN  MapSet(MapFromEntries(SubSeq(entries, 1, Len(entries) - 1)), e.key, e.val)

\* Array.prototype.sort with the comparator weights(a) - weights(b): the sort
\* is stable, so an element goes behind those that compare equal to it
RECURSIVE InsertByWeight(_, _, _)
InsertByWeight(sorted, e, wt) ==
    IF sorted = <<>> THEN <<e>>
    ELSE IF wt[Head(sorted)] - wt[e] > 0 THEN <<e>> \o sorted
    ELSE <<Head(sorted)>> \o InsertByWeight(Tail(sorted), e, wt)
\* (SortByWeightM: the array is left in its order)
SortByWeightM(es, wt) == es
RECURSIVE SortByWeight(_, _)
SortByWeight(es, wt) ==
    IF es = <<>> THEN <<>>
    ELSE InsertByWeight(SortByWeight(SubSeq(es, 1, Len(es) - 1), wt), es[Len(es)], wt)

\* GraphSolver.sortEdgesByWeight()
sortEdgesByWeight(w, g, wt) ==
    LET sorted == SortByWeight(MapValueSeq(w.edges[g]), wt)
        entries == [i \in 1..Len(sorted) |->
                       [key |-> w.eobj[sorted[i]].id, val |-> sorted[i]]]
    IN  [w EXCEPT !.edges[g] = MapFromEntries(entries)]

\* for (const V of this.G.vertices.values()) djs.makeSet(V.id)
RECURSIVE MakeSets(_, _)
MakeSets(d, Vs) ==
    IF Vs = <<>> THEN d
    ELSE makeSet(MakeSets(d, SubSeq(Vs, 1, Len(Vs) - 1)), vobj[Vs[Len(Vs)]].id)

\* new BinaryHeap(comparator): no initial elements are passed, and the
\* iterator of a heap yields while its length is not 0
BinaryHeapEmpty == <<>>

\* forest.add(E); djs.union(E.u.id, E.v.id)
\* (kruskalAddM: the union left out)
kruskalAddM(st, E) == [forest |-> SetAdd(st.forest, E), djs |-> st.djs]
kruskalAdd(st, E) ==
    [forest |-> SetAdd(st.forest, E),
     djs |-> union(st.djs, vobj[eobj[E].u].id, vobj[eobj[E].v].id)]

\* the body of `for (const E of sortedEdges)` when neither find throws
\* (kruskalVisitM: the comparison of the two representatives left out)
kruskalVisitM(st, E) ==
    [forest |-> SetAdd(st.forest, E),
     djs |-> union(st.djs, vobj[eobj[E].u].id, vobj[eobj[E].v].id)]
kruskalVisit(st, E) ==
    LET fu == find(st.djs, vobj[eobj[E].u].id)
        fv == find(fu.d, vobj[eobj[E].v].id)
    IN  IF fu.ret # fv.ret
        THEN kruskalAdd([forest |-> st.forest, djs |-> fv.d], E)
        ELSE [forest |-> st.forest, djs |-> fv.d]

\* the createEdge calls that build a graph handed to the kruskal methods:
\* up to k edges, which all take the `directed` option of their graph
EdgeListsUpTo(n, k, directed) ==
    UNION {[1..m -> {sh \in EdgeShapes(n) : sh.directed = directed}] : m \in 0..k}
\* the arrays that list every edge of S once in non-decreasing weight order
SortedListings(S, wt) ==
    {f \in [1..Cardinality(S) -> S] :
        /\ \A i, j \in 1..Cardinality(S) : i # j => f[i] # f[j]
        /\ \A i, j \in 1..Cardinality(S) : i < j => wt[f[i]] <= wt[f[j]]}

\* G is one of the graphs of up to MaxKruskalObjects vertices plus edges,
\* directed or undirected
KruskalGraph ==
    \E n \in 1..MaxKruskalObjects, directed \in BOOLEAN :
      \E list \in EdgeListsUpTo(n, MaxKruskalObjects - n, directed) :
        LET w == BuildGraph(n, list) IN
        /\ vertices = w.vertices
        /\ edges = w.edges
        /\ vobj = w.vobj
        /\ eobj = w.eobj

KruskalMethods == {"kruskalPresorted", "kruskalWithSort", "sortEdgesByWeight"}

\* a weighted graph and a call of one of the methods; last.pre: the call is
\* kruskalPresorted() without an edge sequence; sortedEdges holds the
\* sequence when one is passed
KruskalInit ==
    /\ KruskalGraph
    /\ weights \in [EdgeHandles -> Weights]
    /\ \E method \in KruskalMethods, omitted \in BOOLEAN :
          /\ method # "kruskalPresorted" => omitted
          /\ last = [NoCall EXCEPT !.op = method,
                                   !.pre = omitted /\ method = "kruskalPresorted"]
          /\ IF omitted THEN sortedEdges = <<>>
             ELSE sortedEdges \in SortedListings(GEdges, weights)
    /\ pc = "call"
    /\ result = <<>>
    /\ root = 0
    /\ accept = {}
    /\ frontier = <<>>
    /\ discovered = {}
    /\ backPaths = <<>>
    /\ ins = <<>>
    /\ rem = <<>>
    /\ popHeight = <<>>
    /\ lowSince = <<>>
    /\ BidiIdle
    /\ StructuresIdle
    /\ forest = <<>>
    /\ djs = <<>>
    /\ joined = {}
    /\ remade = {}

\* kruskalPresorted(edges?) up to the loop
\* (KruskalPresortedCallM: the call sorts G.edges first, as kruskalWithSort)
KruskalPresortedCallM ==
    /\ pc = "call"
    /\ last.op = "kruskalPresorted"
    /\ Commit(sortEdgesByWeight(World, "G", weights))
    /\ forest' = <<>>
    /\ djs' = MakeSets(DisjointSetNew, MapValueSeq(vertices["G"]))
    /\ sortedEdges' = IF last.pre THEN BinaryHeapEmpty ELSE sortedEdges
    /\ pc' = "loop"
    /\ UNCHANGED <<last, bvars, tvars, weights, joined, remade, root, accept, frontier,
                   discovered, backPaths, result, ins, rem, popHeight, lowSince>>
KruskalPresortedCall ==
    /\ pc = "call"
    /\ last.op = "kruskalPresorted"
    /\ forest' = <<>>
    /\ djs' = MakeSets(DisjointSetNew, MapValueSeq(vertices["G"]))
    /\ sortedEdges' = IF last.pre THEN BinaryHeapEmpty ELSE sortedEdges
    /\ pc' = "loop"
    /\ UNCHANGED <<gvars, bvars, tvars, weights, joined, remade, root, accept, frontier,
                   discovered, backPaths, result, ins, rem, popHeight, lowSince>>

\* kruskalWithSort() up to the loop of the kruskalPresorted() it calls
KruskalWithSortCall ==
    /\ pc = "call"
    /\ last.op = "kruskalWithSort"
    /\ Commit(sortEdgesByWeight(World, "G", weights))
    /\ forest' = <<>>
    /\ djs' = MakeSets(DisjointSetNew, MapValueSeq(vertices["G"]))
    /\ sortedEdges' = BinaryHeapEmpty
    /\ pc' = "loop"
    /\ UNCHANGED <<last, bvars, tvars, weights, joined, remade, root, accept, frontier,
                   discovered, backPaths, result, ins, rem, popHeight, lowSince>>

\* sortEdgesByWeight()
SortEdgesByWeightCall ==
    /\ pc = "call"
    /\ last.op = "sortEdgesByWeight"
    /\ Commit(sortEdgesByWeight(World, "G", weights))
    /\ pc' = "done"
    /\ UNCHANGED <<last, bvars, tvars, kvars, root, accept, frontier, discovered,
                   backPaths, result, ins, rem, popHeight, lowSince>>

\* one round of `for (const E of sortedEdges)`
KruskalStep ==
    /\ pc = "loop"
    /\ sortedEdges # <<>>
    /\ LET E == Head(sortedEdges) IN
       IF findThrows(djs, vobj[eobj[E].u].id)
       THEN /\ pc' = "threw"
            /\ UNCHANGED <<forest, djs>>
       ELSE IF findThrows(djs, vobj[eobj[E].v].id)
       THEN /\ pc' = "threw"
            /\ djs' = find(djs, vobj[eobj[E].u].id).d
            /\ UNCHANGED forest
       ELSE LET st == kruskalVisit([forest |-> forest, djs |-> djs], E)
            IN  /\ forest' = st.forest
                /\ djs' = st.djs
                /\ UNCHANGED pc
    /\ sortedEdges' = Tail(sortedEdges)
    /\ UNCHANGED <<gvars, bvars, tvars, weights, joined, remade, root, accept, frontier,
                   discovered, backPaths, result, ins, rem, popHeight, lowSince>>

\* the iterable is exhausted: the forest is returned
KruskalReturn ==
    /\ pc = "loop"
    /\ sortedEdges = <<>>
    /\ pc' = "done"
    /\ UNCHANGED <<gvars, bvars, tvars, kvars, root, accept, frontier, discovered,
                   backPaths, result, ins, rem, popHeight, lowSince>>

KruskalNext ==
    \/ KruskalPresortedCall
    \/ KruskalWithSortCall
    \/ SortEdgesByWeightCall
    \/ KruskalStep
    \/ KruskalReturn

SpecKruskal == KruskalInit /\ [][KruskalNext]_vars

\* ------------------------------------------------- the calls side by side
\* One call of BFS, DFS, bidi or kruskalPresorted on a graph; last.op names
\* the method called.  The searches start at the first vertex created;
\* kruskalPresorted is called without an argument or with the edges of G
\* in ascending weight order.
SearchArgs ==
    /\ root = 1
    /\ accept \in SUBSET VertexHandles
    /\ pc = "run"
    /\ result = <<>>
    /\ rem = [v \in VertexHandles |-> 0]
    /\ ins = [v \in VertexHandles |-> IF v = root THEN 1 ELSE 0]
    /\ backPaths = MapSet(<<>>, root, PathNew("G", root))
    /\ BidiIdle
    /\ KruskalIdle
    /\ StructuresIdle

CallsInit ==
    /\ KruskalGraph
    /\ \/ /\ last = [NoCall EXCEPT !.op = "BFS"]
          /\ SearchArgs
          /\ frontier = QueueOf(<<root>>)
          /\ discovered = {root}
          /\ popHeight = <<>>
          /\ lowSince = <<>>
       \/ /\ last = [NoCall EXCEPT !.op = "DFS"]
          /\ SearchArgs
          /\ frontier = StackOf(<<root>>)
          /\ discovered = {}
          /\ popHeight = [v \in VertexHandles |-> -1]
          /\ lowSince = [v \in VertexHandles |-> 0]
       \/ /\ last = [NoCall EXCEPT !.op = "bidi"]
          /\ left = 1
          /\ right \in VertexHandles
          /\ BidiStart
       \/ /\ weights \in [EdgeHandles -> Weights]
          /\ \E omitted \in BOOLEAN :
                /\ last = [NoCall EXCEPT !.op = "kruskalPresorted", !.pre = omitted]
                /\ sortedEdges = IF omitted THEN <<>>
                                 ELSE SortByWeight(MapValueSeq(edges["G"]), weights)
          /\ forest = <<>>
          /\ djs = <<>>
          /\ joined = {}
          /\ remade = {}
          /\ pc = "call"
          /\ result = <<>>
          /\ root = 0
          /\ accept = {}
          /\ frontier = <<>>
          /\ discovered = {}
          /\ backPaths = <<>>
          /\ ins = <<>>
          /\ rem = <<>>
          /\ popHeight = <<>>
          /\ lowSince = <<>>
          /\ BidiIdle
          /\ StructuresIdle

CallsNext ==
    \/ last.op = "BFS" /\ BFSNext
    \/ last.op = "DFS" /\ DFSNext
    \/ last.op = "bidi" /\ BidiNext
    \/ KruskalPresortedCall
    \/ KruskalStep
    \/ KruskalReturn

SpecCalls == CallsInit /\ [][CallsNext]_vars

\* ----------------------------------------------------------- kruskal claims
\* the vertices joined to a vertex of C by the edges of F, whatever their
\* direction
RECURSIVE JoinedBy(_, _)
JoinedBy(F, C) ==
    LET D == C \cup {eobj[e].u : e \in {x \in F : eobj[x].v \in C}}
                \cup {eobj[e].v : e \in {x \in F : eobj[x].u \in C}}
    IN  IF D = C THEN C ELSE JoinedBy(F, D)
Connects(F, x, y) == y \in JoinedBy(F, {x})
\* no edge of F closes a cycle: without it, its endpoints are not joined
Acyclic(F) == \A e \in F : ~ Connects(F \ {e}, eobj[e].u, eobj[e].v)
\* F joins whatever the edges of G join
Spanning(F) ==
    \A x \in GVertices, y \in GVertices : Connects(GEdges, x, y) => Connects(F, x, y)
SpanningForests == {F \in SUBSET GEdges : Acyclic(F) /\ Spanning(F)}
TotalWeight(F) == Sum(weights, F)
MinimumSpanningForest(F) ==
    /\ F \in SpanningForests
    /\ \A F2 \in SpanningForests : TotalWeight(F) <= TotalWeight(F2)
\* iterating G.edges yields the edges in non-decreasing weight order
EdgesSortedByWeight(m) ==
    \A i, j \in 1..Len(m) : i < j => weights[m[i].val] <= weights[m[j].val]
MapEntries(m) == {m[i] : i \in 1..Len(m)}

\* C15: kruskalPresorted() called without an edge sequence returns a minimum
\* spanning forest of G: acyclic, joining every two vertices that G joins,
\* of least total weight.
C15_KruskalFromHeap ==
    (pc = "done" /\ last.op = "kruskalPresorted" /\ last.pre) =>
        MinimumSpanningForest(SetElems(forest))

\* C16: kruskalPresorted(edges), edges listing every edge of G once in
\* non-decreasing weight order, returns a minimum spanning forest of G,
\* whatever the direction of the edges.
C16_KruskalPresorted ==
    (pc = "done" /\ last.op = "kruskalPresorted" /\ ~ last.pre) =>
        MinimumSpanningForest(SetElems(forest))

\* kruskalPresorted(edges) on a graph of three edges left out the heavier
\* of two directed edges that was created first, and kept the lighter one,
\* which joins the same two vertices the other way round
C16_Witness ==
    /\ pc = "done" /\ last.op = "kruskalPresorted" /\ ~ last.pre
    /\ Len(forest) = 1
    /\ Cardinality(GEdges) = 3
    /\ \E e \in GEdges, f \in GEdges :
          /\ e < f /\ weights[e] > weights[f]
          /\ eobj[e].u # eobj[e].v
          /\ eobj[e].u = eobj[f].v /\ eobj[e].v = eobj[f].u
          /\ eobj[e].directed /\ eobj[f].directed
          /\ ~ SetHas(forest, e) /\ SetHas(forest, f)

\* C17: kruskalWithSort() re-sorts G.edges by ascending weight and returns a
\* minimum spanning forest of G.
C17_KruskalWithSort ==
    (pc = "done" /\ last.op = "kruskalWithSort") =>
        /\ EdgesSortedByWeight(edges["G"])
        /\ MinimumSpanningForest(SetElems(forest))

\* C18: after sortEdgesByWeight(), iterating G.edges yields the edges in
\* non-decreasing weight order, the (id, edge) entries are those of before
\* the call, and G.vertices, the adjacency sets and the edges' endpoints and
\* directed flags are unchanged.
C18_SortEdgesByWeight ==
    [][(pc = "call" /\ last.op = "sortEdgesByWeight") =>
          /\ EdgesSortedByWeight(edges'["G"])
          /\ MapEntries(edges'["G"]) = MapEntries(edges["G"])
          /\ Len(edges'["G"]) = Len(edges["G"])
          /\ vertices' = vertices
          /\ vobj' = vobj
          /\ eobj' = eobj
          /\ weights' = weights]_vars

\* sortEdgesByWeight() moved the edge created last in front of two heavier
\* ones, which kept their order
C18_Witness ==
    /\ pc = "done" /\ last.op = "sortEdgesByWeight"
    /\ Len(edges["G"]) = 3
    /\ MapValueSeq(edges["G"]) = <<3, 1, 2>>
    /\ weights = <<2, 2, 1>>

\* ------------------------------------------------------------- frame claim
\* C19: BFS, DFS, bidi and kruskalPresorted never mutate the graph: no step
\* of such a call changes G.vertices, G.edges (entries and order), an
\* adjacency set, or the endpoints and the directed flag of an edge.
C19_SolverLeavesGraphAlone ==
    [][(last.op \in {"BFS", "DFS", "bidi", "kruskalPresorted"}) =>
          /\ vertices' = vertices
          /\ edges' = edges
          /\ vobj' = vobj
          /\ eobj' = eobj]_vars

\* kruskalPresorted(edges) has returned a forest, and G.edges is still in
\* an order that is not the order of the weights
C19_Witness ==
    /\ pc = "done" /\ last.op = "kruskalPresorted" /\ ~ last.pre
    /\ forest # <<>>
    /\ ~ EdgesSortedByWeight(edges["G"])

\* ------------------------------------------------------------- BinaryHeap
\* The comparator of the heaps under study is (a, b) => a - b.
comparator(a, b) == a - b
\* BinaryHeap.leftRight(index) and BinaryHeap.parent(index)
leftRight(index) == <<index * 2 + 1, index * 2 + 2>>
parent(index) == (index - 1) \div 2
\* Array.prototype.pop: the array without its last element
ArrPop(a) == [i \in 0..(ArrLen(a) - 2) |-> a[i]]
\* swap(arr, i, j)
swap(arr, i, j) == [arr EXCEPT ![i] = arr[j], ![j] = arr[i]]

\* the while loop of #bubbleUp and the assignment that follows it
RECURSIVE BubbleUpLoop(_, _, _)
BubbleUpLoop(a, current, val) ==
    IF 0 < current /\ comparator(val, a[parent(current)]) < 0
    THEN BubbleUpLoop([a EXCEPT ![current] = a[parent(current)]],
                      parent(current), val)
    ELSE [a EXCEPT ![current] = val]
\* (bubbleUpM: the new element stays where it was appended)
bubbleUpM(a, index) == a
bubbleUp(a, index) ==
    IF index = 0 THEN a ELSE BubbleUpLoop(a, index, a[index])

\* the while loop of #bubbleDown and the assignment that follows it
\* (SmallestM: the right child is never looked at)
SmallestM(a, current) == leftRight(current)[1]
Smallest(a, current) ==
    LET l == leftRight(current)[1]
        r == leftRight(current)[2]
    IN  IF r < ArrLen(a) /\ 0 < comparator(a[l], a[r]) THEN r ELSE l
RECURSIVE BubbleDownLoop(_, _, _)
BubbleDownLoop(a, current, val) ==
    IF leftRight(current)[1] < ArrLen(a)
    THEN LET smallest == Smallest(a, current) IN
         IF comparator(val, a[smallest]) <= 0
         THEN [a EXCEPT ![current] = val]
         ELSE BubbleDownLoop([a EXCEPT ![current] = a[smallest]], smallest, val)
    ELSE [a EXCEPT ![current] = val]
bubbleDown(a, index) ==
    IF index >= ArrLen(a) THEN a ELSE BubbleDownLoop(a, index, a[index])

\* BinaryHeap.push(element)
HeapPushed(a, element) == bubbleUp(ArrPush(a, element), ArrLen(a))
\* BinaryHeap.pop() on a heap that is not empty: the element returned and
\* the heap left behind
HeapFront(a) == swap(a, 0, ArrLen(a) - 1)[ArrLen(a) - 1]
HeapPopped(a) == bubbleDown(ArrPop(swap(a, 0, ArrLen(a) - 1)), 0)
\* new BinaryHeap(comparator, initials)
RECURSIVE HeapOf(_)
HeapOf(initials) ==
    IF initials = <<>> THEN BinaryHeapEmpty
    ELSE HeapPushed(HeapOf(SubSeq(initials, 1, Len(initials) - 1)),
                    initials[Len(initials)])

\* ------------------------------------- Queue, Stack and BinaryHeap in use
\* One container is constructed from `initials` and then used through
\* push, pop, peek and its iterator.  `held` lists what was pushed and has
\* not been returned by a removal since; `last.pre`: the container was
\* empty when the call was made; `ret` is <<>> for undefined.
Elements == 1..3
\* the values of the repository's test of the heap
TestValues == <<5, 3, 8, 1, 2, 6, 9, 4, 7>>
Kinds == {"Queue", "Stack", "BinaryHeap"}
SeqsUpTo(S, n) == UNION {[1..m -> S] : m \in 0..n}
Initials(k) ==
    SeqsUpTo(Elements, MaxPushes)
        \cup (IF k = "BinaryHeap" THEN {TestValues} ELSE {})

\* sq without the first occurrence of x
RECURSIVE RemoveOne(_, _)
RemoveOne(sq, x) ==
    IF sq = <<>> THEN <<>>
    ELSE IF Head(sq) = x THEN Tail(sq)
    ELSE <<Head(sq)>> \o RemoveOne(Tail(sq), x)
Front(sq) == SubSeq(sq, 1, Len(sq) - 1)

ContainersInit ==
    /\ GraphInit
    /\ SolverIdle
    /\ BidiIdle
    /\ KruskalIdle
    /\ PathsIdle
    /\ UtilitiesIdle
    /\ deleted = {}
    /\ kind \in Kinds
    /\ \E initials \in Initials(kind) :
          /\ queue = IF kind = "Queue" THEN QueueOf(initials) ELSE <<>>
          /\ stack = IF kind = "Stack" THEN StackOf(initials) ELSE <<>>
          /\ heap = IF kind = "BinaryHeap" THEN HeapOf(initials) ELSE <<>>
          /\ held = initials
    /\ ret = <<>>
    /\ it = "none"

\* the iteration after a push and after a yield
Fed(i) == IF i \in {"open", "fed"} THEN "fed" ELSE i
Opened(i) == IF i = "fed" THEN "fed" ELSE "open"
\* the iteration after the generator has returned
Closed(i) == IF i = "fed" THEN "doneFed" ELSE "done"
IsDone(i) == i \in {"done", "doneFed"}
Called(op, empty) == [NoCall EXCEPT !.op = op, !.pre = empty]
ContainerFrame ==
    UNCHANGED <<vertices, edges, vobj, eobj, svars, bvars, kvars, pvars,
                deleted, uvars, kind>>

\* queue.push(element)
QueuePushCall ==
    /\ kind = "Queue"
    /\ queue.tail < MaxPushes
    /\ \E element \in Elements :
          /\ queue' = QueuePush(queue, element)
          /\ held' = Append(held, element)
    /\ ret' = <<>>
    /\ last' = Called("push", QueueLength(queue) = 0)
    /\ it' = Fed(it)
    /\ ContainerFrame
    /\ UNCHANGED <<stack, heap>>

\* queue.pop()
\* (QueuePopCallM: the element pushed last is taken)
QueuePopCallM ==
    /\ kind = "Queue"
    /\ IF QueueLength(queue) = 0
       THEN ret' = <<>> /\ UNCHANGED <<queue, held>>
       ELSE /\ ret' = <<queue.elements[queue.tail - 1]>>
            /\ queue' = [queue EXCEPT
                  !.elements = [i \in (DOMAIN queue.elements) \ {queue.tail - 1}
                                   |-> queue.elements[i]],
                  !.tail = @ - 1]
            /\ held' = Tail(held)
    /\ last' = Called("pop", QueueLength(queue) = 0)
    /\ ContainerFrame
    /\ UNCHANGED <<stack, heap, it>>
QueuePopCall ==
    /\ kind = "Queue"
    /\ IF QueueLength(queue) = 0
       THEN ret' = <<>> /\ UNCHANGED <<queue, held>>
       ELSE /\ ret' = <<QueueFront(queue)>>
            /\ queue' = QueuePopped(queue)
            /\ held' = Tail(held)
    /\ last' = Called("pop", QueueLength(queue) = 0)
    /\ ContainerFrame
    /\ UNCHANGED <<stack, heap, it>>

\* one next() of `for (const el of queue)`: the generator yields pop() while
\* the length is not 0 and returns when it is
QueueIterNext ==
    /\ kind = "Queue"
    /\ IF QueueLength(queue) # 0
       THEN /\ ret' = <<QueueFront(queue)>>
            /\ queue' = QueuePopped(queue)
            /\ held' = Tail(held)
            /\ it' = Opened(it)
       ELSE /\ ret' = <<>>
            /\ it' = Closed(it)
            /\ UNCHANGED <<queue, held>>
    /\ last' = Called("next", QueueLength(queue) = 0)
    /\ ContainerFrame
    /\ UNCHANGED <<stack, heap>>

\* stack.push(element)
StackPushCall ==
    /\ kind = "Stack"
    /\ StackLength(stack) < MaxPushes
    /\ \E element \in Elements :
          /\ stack' = StackPush(stack, element)
          /\ held' = Append(held, element)
    /\ ret' = <<>>
    /\ last' = Called("push", StackLength(stack) = 0)
    /\ it' = Fed(it)
    /\ ContainerFrame
    /\ UNCHANGED <<queue, heap>>

\* stack.pop()
StackPopCall ==
    /\ kind = "Stack"
    /\ IF StackLength(stack) = 0
       THEN ret' = <<>> /\ UNCHANGED <<stack, held>>
       ELSE /\ ret' = <<StackTop(stack)>>
            /\ stack' = StackPopped(stack)
            /\ held' = Front(held)
    /\ last' = Called("pop", StackLength(stack) = 0)
    /\ ContainerFrame
    /\ UNCHANGED <<queue, heap, it>>

\* one next() of `for (const el of stack)`
\* (StackIterNextM: the generator returns when one element is left)
StackIterNextM ==
    /\ kind = "Stack"
    /\ IF StackLength(stack) > 1
       THEN /\ ret' = <<StackTop(stack)>>
            /\ stack' = StackPopped(stack)
            /\ held' = Front(held)
            /\ it' = Opened(it)
       ELSE /\ ret' = <<>>
            /\ it' = Closed(it)
            /\ UNCHANGED <<stack, held>>
    /\ last' = Called("next", StackLength(stack) = 0)
    /\ ContainerFrame
    /\ UNCHANGED <<queue, heap>>
StackIterNext ==
    /\ kind = "Stack"
    /\ IF StackLength(stack) # 0
       THEN /\ ret' = <<StackTop(stack)>>
            /\ stack' = StackPopped(stack)
            /\ held' = Front(held)
            /\ it' = Opened(it)
       ELSE /\ ret' = <<>>
            /\ it' = Closed(it)
            /\ UNCHANGED <<stack, held>>
    /\ last' = Called("next", StackLength(stack) = 0)
    /\ ContainerFrame
    /\ UNCHANGED <<queue, heap>>

\* heap.push(element)
HeapPush ==
    /\ kind = "BinaryHeap"
    /\ ArrLen(heap) < MaxPushes
    /\ \E element \in Elements :
          /\ heap' = HeapPushed(heap, element)
          /\ held' = Append(held, element)
    /\ ret' = <<>>
    /\ last' = Called("push", ArrLen(heap) = 0)
    /\ it' = Fed(it)
    /\ ContainerFrame
    /\ UNCHANGED <<queue, stack>>

\* heap.pop()
HeapPop ==
    /\ kind = "BinaryHeap"
    /\ IF ArrLen(heap) = 0
       THEN ret' = <<>> /\ UNCHANGED <<heap, held>>
       ELSE /\ ret' = <<HeapFront(heap)>>
            /\ heap' = HeapPopped(heap)
            /\ held' = RemoveOne(held, HeapFront(heap))
    /\ last' = Called("pop", ArrLen(heap) = 0)
    /\ ContainerFrame
    /\ UNCHANGED <<queue, stack, it>>

\* heap.peek()
HeapPeek ==
    /\ kind = "BinaryHeap"
    /\ ret' = IF ArrLen(heap) = 0 THEN <<>> ELSE <<heap[0]>>
    /\ last' = Called("peek", ArrLen(heap) = 0)
    /\ ContainerFrame
    /\ UNCHANGED <<queue, stack, heap, held, it>>

\* one next() of `for (const el of heap)`
HeapIterNext ==
    /\ kind = "BinaryHeap"
    /\ IF ArrLen(heap) # 0
       THEN /\ ret' = <<HeapFront(heap)>>
            /\ heap' = HeapPopped(heap)
            /\ held' = RemoveOne(held, HeapFront(heap))
            /\ it' = Opened(it)
       ELSE /\ ret' = <<>>
            /\ it' = Closed(it)
            /\ UNCHANGED <<heap, held>>
    /\ last' = Called("next", ArrLen(heap) = 0)
    /\ ContainerFrame
    /\ UNCHANGED <<queue, stack>>

ContainersNext ==
    \/ QueuePushCall
    \/ QueuePopCall
    \/ QueueIterNext
    \/ StackPushCall
    \/ StackPopCall
    \/ StackIterNext
    \/ HeapPush
    \/ HeapPop
    \/ HeapPeek
    \/ HeapIterNext

SpecContainers == ContainersInit /\ [][ContainersNext]_vars

\* ------------------------------------------------ Queue, Stack, heap claims
\* what repeated pop() returns until the heap is empty
RECURSIVE Drain(_)
Drain(a) ==
    IF ArrLen(a) = 0 THEN <<>> ELSE <<HeapFront(a)>> \o Drain(HeapPopped(a))
\* sq in non-decreasing order
RECURSIVE Sorted(_)
Sorted(sq) ==
    IF sq = <<>> THEN <<>>
    ELSE LET m == CHOOSE x \in {sq[i] : i \in 1..Len(sq)} :
                      \A i \in 1..Len(sq) : x <= sq[i]
         IN  <<m>> \o Sorted(RemoveOne(sq, m))

\* C22: whatever was pushed into a BinaryHeap and not yet removed comes out
\* of repeated pop() (and of the iterator, which calls pop()) once each in
\* non-decreasing order, after which pop() returns undefined; the values
\* 5,3,8,1,2,6,9,4,7 come out as 1..9.
C22_HeapDrainsInOrder ==
    [](kind = "BinaryHeap" =>
          /\ Drain(heap) = Sorted(held)
          /\ held = TestValues => Drain(heap) = <<1, 2, 3, 4, 5, 6, 7, 8, 9>>)
    /\ [][(kind = "BinaryHeap" /\ last'.op \in {"pop", "next"}) =>
            IF held = <<>> THEN ret' = <<>> /\ heap' = heap
            ELSE ret' = <<Sorted(held)[1]>> /\ Len(held') = Len(held) - 1]_vars

\* the iterator of the heap of the test has yielded eight values, the latest
\* being 8, and 9 is left
C22_Witness ==
    /\ kind = "BinaryHeap"
    /\ last.op = "next" /\ it = "open" /\ ret = <<8>>
    /\ held = <<9>>
    /\ ArrLen(heap) = 1

HeapOrdered(a) ==
    \A i \in DOMAIN a : i > 0 => comparator(a[i], a[parent(i)]) >= 0

\* C23: in a BinaryHeap no element compares less than the element at its
\* parent index, so peek() returns a least element; peek() leaves the heap
\* as it is, and pop() on an empty heap returns undefined and changes
\* nothing.
C23_HeapOrder ==
    [](kind = "BinaryHeap" => HeapOrdered(heap))
    /\ [][kind = "BinaryHeap" =>
            /\ last'.op = "peek" =>
                  /\ heap' = heap
                  /\ IF ArrLen(heap) = 0 THEN ret' = <<>>
                     ELSE /\ Len(ret') = 1
                          /\ \A i \in DOMAIN heap : ret'[1] <= heap[i]
            /\ (last'.op = "pop" /\ ArrLen(heap) = 0) =>
                  ret' = <<>> /\ heap' = heap]_vars

\* a pop() has left a heap of four elements in which the right child of the
\* root is smaller than the left one and the last element is larger
C23_Witness ==
    /\ kind = "BinaryHeap"
    /\ last.op = "pop" /\ ret # <<>>
    /\ ArrLen(heap) = 4
    /\ heap[2] < heap[1]
    /\ heap[3] > heap[1]

\* the length of the Queue or Stack under study
ContainerLength ==
    IF kind = "Queue" THEN QueueLength(queue) ELSE StackLength(stack)

\* C24: Queue.pop returns the oldest element pushed and not yet removed,
\* Stack.pop the newest; pop on an empty container returns undefined and
\* changes nothing; length is the number of pushes minus the number of pops
\* that returned an element.
C24_FifoLifo ==
    [](kind \in {"Queue", "Stack"} => ContainerLength = Len(held))
    /\ [][(kind \in {"Queue", "Stack"} /\ last'.op = "pop") =>
            IF held = <<>>
            THEN ret' = <<>> /\ queue' = queue /\ stack' = stack
            ELSE /\ kind = "Queue" => ret' = <<held[1]>>
                 /\ kind = "Stack" => ret' = <<held[Len(held)]>>]_vars

\* a pop() has returned from a container that still holds two different
\* elements; for a Queue it was at least the second removal
C24_Witness ==
    /\ kind \in {"Queue", "Stack"}
    /\ last.op = "pop" /\ ret # <<>>
    /\ Len(held) >= 2 /\ held[1] # held[Len(held)]
    /\ kind = "Queue" => queue.head >= 2

\* C25: every next() of the iterator of a Queue or Stack removes and yields
\* the oldest resp. newest element held, those pushed since the iteration
\* began included, and the iterator is done only when nothing is held: the
\* length is 0 when the iteration has run to completion.
C25_IterationDrains ==
    []((kind \in {"Queue", "Stack"} /\ last.op = "next" /\ IsDone(it)) =>
          ContainerLength = 0 /\ held = <<>>)
    /\ [][(kind \in {"Queue", "Stack"} /\ last'.op = "next") =>
            IF held = <<>>
            THEN IsDone(it') /\ ret' = <<>>
            ELSE /\ it' \in {"open", "fed"}
                 /\ held' = (IF kind = "Queue" THEN Tail(held) ELSE Front(held))
                 /\ ContainerLength' = Len(held')
                 /\ kind = "Queue" => ret' = <<held[1]>>
                 /\ kind = "Stack" => ret' = <<held[Len(held)]>>]_vars

\* an iteration during which elements were pushed has run to completion
C25_Witness ==
    /\ kind \in {"Queue", "Stack"}
    /\ last.op = "next" /\ it = "doneFed"
    /\ ContainerLength = 0

\* ----------------------------------------------------------- Path in use
\* A Path of graph G is constructed, and it and its copies are extended,
\* read and copied; the other graph holds one vertex with a loop, an edge
\* foreign to every path.  The same graphs are handed to BFS, DFS and bidi
\* for the paths they build.  For the Path calls `last` records op, the
\* path h, threw, and
\*   pre: addEdge - the edge belongs to another graph than the path
WithForeign(w) ==
    LET w1 == createVertex(w, "H", VertexUuids[Len(w.vobj) + 1])
    IN  createEdge(w1, "H", Len(w1.vobj), Len(w1.vobj),
                   EdgeUuids[Len(w1.eobj) + 1], FALSE)

PathsWorld ==
    \E n \in 1..MaxPathObjects, directed \in BOOLEAN :
      \E list \in EdgeListsUpTo(n, MaxPathObjects - n, directed) :
        LET w == WithForeign(BuildGraph(n, list)) IN
        /\ vertices = w.vertices
        /\ edges = w.edges
        /\ vobj = w.vobj
        /\ eobj = w.eobj

PathsInit ==
    /\ PathsWorld
    /\ \/ /\ last = [NoCall EXCEPT !.op = "BFS"]
          /\ SearchArgs
          /\ frontier = QueueOf(<<root>>)
          /\ discovered = {root}
          /\ popHeight = <<>>
          /\ lowSince = <<>>
       \/ /\ last = [NoCall EXCEPT !.op = "DFS"]
          /\ SearchArgs
          /\ frontier = StackOf(<<root>>)
          /\ discovered = {}
          /\ popHeight = [v \in VertexHandles |-> -1]
          /\ lowSince = [v \in VertexHandles |-> 0]
       \/ /\ last = [NoCall EXCEPT !.op = "bidi"]
          /\ left = 1
          /\ right \in GVertices
          /\ BidiStart
       \/ /\ last = NoCall
          /\ SolverIdle
          /\ BidiIdle
          /\ KruskalIdle
          /\ StructuresIdle

\* Path objects plus entries of edge arrays
RECURSIVE PathSize(_)
PathSize(ps) ==
    IF ps = <<>> THEN 0 ELSE 1 + Len(Head(ps).edges) + PathSize(Tail(ps))
PathStudy == last.op \notin {"BFS", "DFS", "bidi"}
PathFrame == UNCHANGED <<vertices, edges, vobj, eobj, svars, bvars, kvars,
                         cvars, deleted, uvars>>

\* G.createPath(start)
CreatePath ==
    /\ PathStudy
    /\ paths = <<>>
    /\ \E start \in GVertices :
          paths' = Append(paths, PathNew("G", start))
    /\ earr' = Append(earr, Len(earr) + 1)
    /\ last' = [NoCall EXCEPT !.op = "createPath", !.h = Len(paths) + 1]
    /\ PathFrame

\* new Path(G), without a start vertex
NewPath ==
    /\ PathStudy
    /\ paths = <<>>
    /\ paths' = Append(paths, PathNew("G", Null))
    /\ earr' = Append(earr, Len(earr) + 1)
    /\ last' = [NoCall EXCEPT !.op = "new Path", !.h = Len(paths) + 1]
    /\ PathFrame

\* paths[h].addEdge(e): the push reaches every path whose `edges` is the
\* same array object
AddEdge ==
    /\ PathStudy
    /\ \E h \in DOMAIN paths, e \in EdgeHandles :
          /\ PathSize(paths) < MaxPathSize
          /\ IF PathAddEdgeThrows(paths[h], e)
             THEN paths' = [paths EXCEPT ![h] = PathAddEdgeFailed(@, e)]
             ELSE paths' = [j \in DOMAIN paths |->
                              IF j = h THEN PathAddEdge(paths[h], e)
                              ELSE IF earr[j] = earr[h]
                              THEN [paths[j] EXCEPT !.edges = Append(@, e)]
                              ELSE paths[j]]
          /\ last' = [NoCall EXCEPT !.op = "addEdge", !.h = h,
                                    !.threw = PathAddEdgeThrows(paths[h], e),
                                    !.pre = eobj[e].graph # paths[h].graph]
    /\ UNCHANGED earr
    /\ PathFrame

\* a read of paths[h].vertices
ReadVertices ==
    /\ PathStudy
    /\ \E h \in DOMAIN paths :
          /\ paths' = [paths EXCEPT ![h] = PathRead(@)]
          /\ last' = [NoCall EXCEPT !.op = "vertices", !.h = h]
    /\ UNCHANGED earr
    /\ PathFrame

\* paths[h].copy(): path.edges = this.edges.slice() is a new array object
\* (CopyM: path.edges = this.edges)
CopyM ==
    /\ PathStudy
    /\ \E h \in DOMAIN paths :
          /\ PathSize(paths) + 1 + Len(paths[h].edges) <= MaxPathSize
          /\ paths' = Append(paths, PathCopy(paths[h]))
          /\ earr' = Append(earr, earr[h])
          /\ last' = [NoCall EXCEPT !.op = "copy", !.h = h]
    /\ PathFrame
Copy ==
    /\ PathStudy
    /\ \E h \in DOMAIN paths :
          /\ PathSize(paths) + 1 + Len(paths[h].edges) <= MaxPathSize
          /\ paths' = Append(paths, PathCopy(paths[h]))
          /\ earr' = Append(earr, Len(earr) + 1)
          /\ last' = [NoCall EXCEPT !.op = "copy", !.h = h]
    /\ PathFrame

PathsNext ==
    \/ last.op = "BFS" /\ BFSNext
    \/ last.op = "DFS" /\ DFSNext
    \/ last.op = "bidi" /\ BidiNext
    \/ CreatePath
    \/ NewPath
    \/ AddEdge
    \/ ReadVertices
    \/ Copy

SpecPaths == PathsInit /\ [][PathsNext]_vars

\* -------------------------------------------------------------- Path claims
\* C26: in every Path built by addEdge calls that returned normally, each
\* edge is incident to the vertex reached so far when walking from the
\* start, and every edge belongs to the graph of the path.
C26_PathEdgesJoin ==
    \A h \in DOMAIN paths :
        /\ JoinedFrom(paths[h].start, paths[h].edges)
        /\ \A i \in DOMAIN paths[h].edges :
              eobj[paths[h].edges[i]].graph = paths[h].graph

\* C27: addEdge(e) with an edge of another graph than the path throws and
\* leaves the start vertex, the edge list and the vertex sequence of the
\* path as they were.
C27_ForeignEdgeRejected ==
    [][(last'.op = "addEdge" /\ last'.pre) =>
          /\ last'.threw
          /\ paths'[last'.h].start = paths[last'.h].start
          /\ paths'[last'.h].edges = paths[last'.h].edges
          /\ PathVertices(paths'[last'.h]) = PathVertices(paths[last'.h])]_vars

\* C28: copy() returns a path with the graph, the start and the edge
\* sequence of the original, and an addEdge on one path leaves the edges
\* and the vertices of every other path as they were.
C28_CopyIsIndependent ==
    [][/\ last'.op = "copy" =>
            /\ Len(paths') = Len(paths) + 1
            /\ paths'[Len(paths')].graph = paths[last'.h].graph
            /\ paths'[Len(paths')].start = paths[last'.h].start
            /\ paths'[Len(paths')].edges = paths[last'.h].edges
            /\ \A j \in DOMAIN paths : paths'[j] = paths[j]
       /\ last'.op = "addEdge" =>
            \A j \in DOMAIN paths : j # last'.h =>
                /\ paths'[j].edges = paths[j].edges
                /\ PathVertices(paths'[j]) = PathVertices(paths[j])]_vars

\* after copy(), addEdge has returned on the copy and on the original, with
\* different edges
C28_Witness ==
    /\ last.op = "addEdge" /\ ~ last.threw
    /\ Len(paths) = 2
    /\ Len(paths[1].edges) = 1
    /\ Len(paths[2].edges) = 1
    /\ paths[1].edges # paths[2].edges
    /\ paths[1].start = paths[2].start

\* the Paths of the state: those under study and the one a search returned
AllPaths == {paths[h] : h \in DOMAIN paths} \cup {result[i] : i \in DOMAIN result}
\* vs starts with `first` and then has, for each edge, an endpoint of it,
\* one different from the vertex before it unless the edge is a loop there
RECURSIVE Derived(_, _, _)
Derived(vs, first, es) ==
    /\ vs # <<>>
    /\ vs[1] = first
    /\ Len(vs) = Len(es) + 1
    /\ es # <<>> =>
          /\ Incident(es[1], vs[2])
          /\ vs[2] # first \/ (eobj[es[1]].u = first /\ eobj[es[1]].v = first)
          /\ Derived(Tail(vs), vs[2], Tail(es))

\* C29: path.vertices is the sequence derived from the start and the
\* current edge list, of length edges.length + 1 when a start is set, for
\* every path under study and every path returned by BFS, DFS or bidi.
C29_VerticesFollowEdges ==
    \A p \in AllPaths :
        IF p.start = Null THEN PathVertices(p) = <<>> /\ p.edges = <<>>
        ELSE Derived(PathVertices(p), p.start, p.edges)

\* the vertices of a path with two edges have been read and are cached
C29_Witness ==
    /\ last.op = "vertices"
    /\ \E h \in DOMAIN paths :
          /\ paths[h].vcache # <<>>
          /\ Len(paths[h].edges) = 2
          /\ Len(paths[h].vcache[1]) = 3

\* ------------------------------------------------------- deleteEdge claim
\* C30: deleteEdge(e) removes e from the adjacency sets of both endpoints
\* and from G.edges, and a deleteEdge(e) that comes after one already
\* applied to e leaves the vertex map, the edge map and every adjacency set
\* as they were.
C30_DeleteEdgeOnce ==
    [][last'.op = "deleteEdge" =>
          /\ ~ SetHas(vobj'[eobj[last'.h].u].adjacentEdges, last'.h)
          /\ ~ SetHas(vobj'[eobj[last'.h].v].adjacentEdges, last'.h)
          /\ last'.h \notin MapValues(edges'["G"])
          /\ last'.h \in deleted =>
                /\ vertices' = vertices
                /\ edges' = edges
                /\ \A x \in VertexHandles :
                      vobj'[x].adjacentEdges = vobj[x].adjacentEdges]_vars

\* ------------------------------------------------- Graph.toJSON / fromJSON
\* JavaScript values: a type tag, the text of a primitive, the elements of
\* an array; the object { "@graph", v, e } holds its three properties in
\* `items`, an absent property being undefined.
JUndefined == [type |-> "undefined", s |-> "", items |-> <<>>]
JNull == [type |-> "null", s |-> "", items |-> <<>>]
JBool(b) == [type |-> "boolean", s |-> IF b THEN "true" ELSE "false", items |-> <<>>]
JNum(n) == [type |-> "number", s |-> ToString(n), items |-> <<>>]
JStr(str) == [type |-> "string", s |-> str, items |-> <<>>]
JArr(items) == [type |-> "array", s |-> "", items |-> items]
JObj(graph, v, e) == [type |-> "object", s |-> "", items |-> <<graph, v, e>>]

\* typeof x
TypeOf(x) == IF x.type \in {"null", "array", "object"} THEN "object" ELSE x.type
\* !x is false
Truthy(x) ==
    /\ x.type \notin {"undefined", "null"}
    /\ x # JBool(FALSE)
    /\ x # JNum(0)
    /\ x # JStr("")
\* Array.isArray(x)
IsArray(x) == x.type = "array"
\* obj['@graph'], obj.v, obj.e
Prop(obj, name) ==
    IF obj.type # "object" THEN JUndefined
    ELSE obj.items[CASE name = "@graph" -> 1 [] name = "v" -> 2 [] name = "e" -> 3]
\* const [x1, x2, ...] = tuple
Nth(tuple, n) == IF n <= Len(tuple) THEN tuple[n] ELSE JUndefined

signature == JStr("Made with love by MindfulMinun <https://benjic.xyz>")

\* the default replacers and revivers
vertexReplacer(data) == data
edgeReplacer(data) == data
vertexReviver(data) == data
edgeReviver(data) == data

\* the graph objects with their `data` fields
JStore == [vertices |-> vertices, edges |-> edges, vobj |-> vobj, eobj |-> eobj,
           vdata |-> vdata, edata |-> edata]

\* Graph.createVertex(data, id) and Graph.createEdge(u, v, data, {id, directed})
\* with the data kept
createVertexData(w, g, data, id) ==
    [createVertex(w, g, id) EXCEPT !.vdata = Append(@, data)]
createEdgeData(w, g, u, v, data, id, directed) ==
    [createEdge(w, g, u, v, id, directed) EXCEPT !.edata = Append(@, data)]

\* Vertex.toJSON(replacer)
VertexToJSON(w, V) == JArr(<<JStr(w.vobj[V].id), vertexReplacer(w.vdata[V])>>)

\* Edge.toJSON(replacer)
\* (EdgeToJSONM: the ids of u and v in the other order)
EdgeToJSONM(w, E) ==
    JArr(<<JStr(w.eobj[E].id), JStr(w.vobj[w.eobj[E].v].id),
           JStr(w.vobj[w.eobj[E].u].id), w.eobj[E].directed,
           edgeReplacer(w.edata[E])>>)
EdgeToJSON(w, E) ==
    JArr(<<JStr(w.eobj[E].id), JStr(w.vobj[w.eobj[E].u].id),
           JStr(w.vobj[w.eobj[E].v].id), w.eobj[E].directed,
           edgeReplacer(w.edata[E])>>)

\* Graph.toJSON()
toJSON(w, g) ==
    JObj(signature,
         JArr([k \in 1..Len(w.vertices[g]) |-> VertexToJSON(w, w.vertices[g][k].val)]),
         JArr([k \in 1..Len(w.edges[g]) |-> EdgeToJSON(w, w.edges[g][k].val)]))

\* a throw of Graph.fromJSON: the graph under construction is dropped
Thrown == [called |-> TRUE, threw |-> TRUE, w |-> NewStore]
Returned(w) == [called |-> TRUE, threw |-> FALSE, w |-> w]

\* the test of one entry of obj.v
\* (VertexEntryBadM: the test of the id left out)
VertexEntryBadM(V) == ~ IsArray(V)
VertexEntryBad(V) == ~ IsArray(V) \/ TypeOf(Nth(V.items, 1)) # "string"

\* for (const V of obj.v) { ... }
RECURSIVE ReviveVertices(_, _)
ReviveVertices(w, vs) ==
    IF vs = <<>> THEN Returned(w)
    ELSE LET V == Head(vs)
             uuid == Nth(V.items, 1)
             data == Nth(V.items, 2)
         IN  IF VertexEntryBad(V) THEN Thrown
             ELSE ReviveVertices(
                      createVertexData(w, "R", vertexReviver(data), uuid.s), Tail(vs))

\* for (const E of obj.e) { ... }
RECURSIVE ReviveEdges(_, _)
ReviveEdges(w, es) ==
    IF es = <<>> THEN Returned(w)
    ELSE LET E == Head(es)
             uuid == Nth(E.items, 1)
             u == Nth(E.items, 2)
             v == Nth(E.items, 3)
             isDirected == Nth(E.items, 4)
             data == Nth(E.items, 5)
         IN  IF ~ IsArray(E) THEN Thrown
             ELSE IF TypeOf(uuid) # "string" THEN Thrown
             ELSE IF TypeOf(u) # "string" THEN Thrown
             ELSE IF TypeOf(v) # "string" THEN Thrown
             ELSE IF ~ MapHas(w.vertices["R"], u.s) THEN Thrown
             ELSE IF ~ MapHas(w.vertices["R"], v.s) THEN Thrown
             ELSE LET U == MapGet(w.vertices["R"], u.s)
                      V == MapGet(w.vertices["R"], v.s)
                  IN  IF ~ EdgeCtorOK(w, "R", U, V) THEN Thrown
                      ELSE ReviveEdges(
                               createEdgeData(w, "R", U, V, edgeReviver(data),
                                              uuid.s, isDirected), Tail(es))

\* Graph.fromJSON(json)
fromJSON(j) ==
    IF ~ Truthy(j) \/ TypeOf(j) # "object" THEN Thrown
    ELSE IF Prop(j, "@graph") # signature THEN Thrown
    ELSE IF ~ IsArray(Prop(j, "v")) THEN Thrown
    ELSE IF ~ IsArray(Prop(j, "e")) THEN Thrown
    ELSE LET vs == ReviveVertices(NewStore, Prop(j, "v").items)
         IN  IF vs.threw THEN Thrown
             ELSE ReviveEdges(vs.w, Prop(j, "e").items)

\* the `data` a caller passes for the k-th object it constructs: every object
\* of G gets data of its own
DataFor(k) == JNum(k)

\* entries of v and of e in the values a caller passes to fromJSON
VertexEntries ==
    {JStr("v1"), JArr(<<>>), JArr(<<JNum(1), JStr("x")>>),
     JArr(<<JStr("v1"), JStr("x")>>), JArr(<<JStr("v2")>>)}
EdgeEntries ==
    {JNull,
     JArr(<<JNull, JStr("v1"), JStr("v1"), JBool(FALSE), JStr("x")>>),
     JArr(<<JStr("e1"), JNum(1), JStr("v1"), JBool(FALSE), JStr("x")>>),
     JArr(<<JStr("e1"), JStr("v1")>>),
     JArr(<<JStr("e1"), JStr("v1"), JStr("v3"), JBool(FALSE), JStr("x")>>),
     JArr(<<JStr("e1"), JStr("v1"), JStr("v2"), JBool(TRUE), JStr("x")>>),
     JArr(<<JStr("e1"), JStr("v2"), JStr("v1")>>),
     JArr(<<JStr("e2"), JStr("v1"), JStr("v1"), JStr("yes"), JNull>>)}
ListsOf(S) == UNION {[1..m -> S] : m \in 0..MaxEntries}
Inputs ==
    {JNull, JUndefined, JBool(FALSE), JStr("x"), JArr(<<>>),
     JObj(JUndefined, JArr(<<>>), JArr(<<>>)),
     JObj(JStr("other"), JArr(<<>>), JArr(<<>>)),
     JObj(signature, JNull, JArr(<<>>)),
     JObj(signature, JArr(<<>>), JUndefined)}
    \cup {JObj(signature, JArr(vs), JArr(es)) :
              vs \in ListsOf(VertexEntries), es \in ListsOf(EdgeEntries)}

\* Either the caller builds G and serializes it, or the caller holds a value
\* from elsewhere.
JsonInit ==
    /\ GraphInit
    /\ SolverIdle
    /\ BidiIdle
    /\ KruskalIdle
    /\ ContainersIdle
    /\ PathsIdle
    /\ RangeIdle
    /\ StreamIdle
    /\ deleted = {}
    /\ vdata = <<>>
    /\ edata = <<>>
    /\ json \in {NoJson} \cup Inputs
    /\ revived = NoResult
    /\ again = NoJson

JsonCommit(w) ==
    /\ Commit(w)
    /\ vdata' = w.vdata
    /\ edata' = w.edata
JsonFrame == UNCHANGED <<svars, bvars, kvars, cvars, pvars, deleted, rvars, evars>>

\* G.createVertex(data, id?)
JsonCreateVertex ==
    \E idArg \in CallerIds \cup {Omitted} :
        LET id == IF idArg = Omitted THEN VertexUuids[Len(vobj) + 1] ELSE idArg
            data == DataFor(Len(vobj) + Len(eobj) + 1)
        IN
        /\ json = NoJson
        /\ Len(vobj) + Len(eobj) < MaxJsonObjects
        /\ JsonCommit(createVertexData(JStore, "G", data, id))
        /\ last' = [NoCall EXCEPT !.op = "createVertex",
                                  !.pre = MapHas(vertices["G"], id)]
        /\ UNCHANGED <<json, revived, again>>
        /\ JsonFrame

\* G.createEdge(u, v, data, {id?, directed?})
JsonCreateEdge ==
    \E u \in VertexHandles, v \in VertexHandles,
       idArg \in CallerIds \cup {Omitted}, directedArg \in {Omitted, "true"} :
        LET id == IF idArg = Omitted THEN EdgeUuids[Len(eobj) + 1] ELSE idArg
            data == DataFor(Len(vobj) + Len(eobj) + 1)
            directed == IF directedArg = Omitted THEN GraphDirected("G") ELSE TRUE
        IN
        /\ json = NoJson
        /\ Len(vobj) + Len(eobj) < MaxJsonObjects
        /\ EdgeCtorOK(JStore, "G", u, v)
        /\ JsonCommit(createEdgeData(JStore, "G", u, v, data, id, JBool(directed)))
        /\ last' = [NoCall EXCEPT !.op = "createEdge"]
        /\ UNCHANGED <<json, revived, again>>
        /\ JsonFrame

\* G.deleteVertex(V)
JsonDeleteVertex ==
    \E V \in VertexHandles :
        /\ json = NoJson
        /\ JsonCommit(deleteVertex(JStore, "G", V))
        /\ last' = [NoCall EXCEPT !.op = "deleteVertex", !.h = V,
                                  !.pre = V \in MapValues(vertices["G"]),
                                  !.n = Len(vobj[V].adjacentEdges)]
        /\ UNCHANGED <<json, revived, again>>
        /\ JsonFrame

\* G.deleteEdge(E)
JsonDeleteEdge ==
    \E E \in EdgeHandles :
        /\ json = NoJson
        /\ JsonCommit(deleteEdge(JStore, "G", E))
        /\ last' = [NoCall EXCEPT !.op = "deleteEdge", !.h = E,
                                  !.pre = E \in MapValues(edges["G"])]
        /\ UNCHANGED <<json, revived, again>>
        /\ JsonFrame

\* json = G.toJSON()
ToJSON ==
    /\ json = NoJson
    /\ json' = toJSON(JStore, "G")
    /\ last' = [NoCall EXCEPT !.op = "toJSON"]
    /\ UNCHANGED <<vertices, edges, vobj, eobj, vdata, edata, revived, again>>
    /\ JsonFrame

\* R = Graph.fromJSON(json)
FromJSON ==
    /\ json # NoJson
    /\ ~ revived.called
    /\ revived' = fromJSON(json)
    /\ last' = [NoCall EXCEPT !.op = "fromJSON", !.threw = revived'.threw]
    /\ UNCHANGED <<vertices, edges, vobj, eobj, vdata, edata, json, again>>
    /\ JsonFrame

\* R.toJSON()
ToJSONAgain ==
    /\ revived.called
    /\ ~ revived.threw
    /\ again = NoJson
    /\ again' = toJSON(revived.w, "R")
    /\ last' = [NoCall EXCEPT !.op = "toJSON"]
    /\ UNCHANGED <<vertices, edges, vobj, eobj, vdata, edata, json, revived>>
    /\ JsonFrame

JsonNext ==
    \/ JsonCreateVertex
    \/ JsonCreateEdge
    \/ JsonDeleteVertex
    \/ JsonDeleteEdge
    \/ ToJSON
    \/ FromJSON
    \/ ToJSONAgain
SpecJSON == JsonInit /\ [][JsonNext]_vars

\* the vertices and the edges of graph g of a store, in the order of its maps
VertexList(w, g) ==
    [k \in 1..Len(w.vertices[g]) |->
        LET V == w.vertices[g][k].val
        IN  [id |-> w.vobj[V].id, data |-> w.vdata[V]]]
EdgeList(w, g) ==
    [k \in 1..Len(w.edges[g]) |->
        LET E == w.edges[g][k].val
        IN  [id |-> w.eobj[E].id, u |-> w.vobj[w.eobj[E].u].id,
             v |-> w.vobj[w.eobj[E].v].id, directed |-> w.eobj[E].directed,
             data |-> w.edata[E]]]

\* C31: for a graph G whose edges all have endpoints registered in G,
\* Graph.fromJSON(G.toJSON()) returns a graph with the same vertices (id,
\* data) in the same order and the same edges (id, u id, v id, directed,
\* data) in the same order, and its toJSON() is the same JSON value.
C31_RoundTrip ==
    (/\ revived.called
     /\ json = toJSON(JStore, "G")
     /\ \A e \in GEdges : eobj[e].u \in GVertices /\ eobj[e].v \in GVertices)
    => /\ ~ revived.threw
       /\ VertexList(revived.w, "R") = VertexList(JStore, "G")
       /\ EdgeList(revived.w, "R") = EdgeList(JStore, "G")
       /\ again # NoJson => again = json

\* a graph with two vertices holding different data and a directed edge
\* between them was serialized, revived and serialized again
C31_Witness ==
    /\ again # NoJson
    /\ json = toJSON(JStore, "G")
    /\ Len(vertices["G"]) = 2
    /\ vdata[vertices["G"][1].val] # vdata[vertices["G"][2].val]
    /\ \E e \in GEdges : /\ eobj[e].u # eobj[e].v
                         /\ eobj[e].directed = JBool(TRUE)
                         /\ {eobj[e].u, eobj[e].v} \subseteq GVertices

\* the ids of the vertices listed in v (entries that are arrays)
ListedIds(j) ==
    {Nth(Prop(j, "v").items[k].items, 1).s :
        k \in {n \in 1..Len(Prop(j, "v").items) : IsArray(Prop(j, "v").items[n])}}
\* an entry of e with an id or an endpoint id that is not a string, or with
\* an endpoint that is not listed in v
EdgeEntryRejected(j, E) ==
    \/ ~ IsArray(E)
    \/ \E n \in 1..3 : Nth(E.items, n).type # "string"
    \/ \E n \in 2..3 : Nth(E.items, n).s \notin ListedIds(j)
\* the inputs Graph.fromJSON is to reject
Rejected(j) ==
    \/ j.type # "object"
    \/ Prop(j, "@graph") # signature
    \/ Prop(j, "v").type # "array"
    \/ Prop(j, "e").type # "array"
    \/ \E k \in 1..Len(Prop(j, "v").items) :
           LET V == Prop(j, "v").items[k]
           IN  V.type # "array" \/ Nth(V.items, 1).type # "string"
    \/ \E k \in 1..Len(Prop(j, "e").items) :
           EdgeEntryRejected(j, Prop(j, "e").items[k])

\* C32: Graph.fromJSON throws, and returns no graph, for every input that is
\* not an object, has another "@graph" than the signature, has a v or e that
\* is not an array, has a vertex or edge entry that is not an array, has a
\* vertex id, edge id or endpoint id that is not a string, or has an edge
\* endpoint id that is not the id of a vertex listed in v.
C32_FromJSONRejects ==
    (revived.called /\ Rejected(json)) => (revived.threw /\ revived.w = NewStore)

\* fromJSON threw on an input whose first vertex and first edge are well
\* formed and whose second edge names a vertex that is not listed
C32_Witness ==
    /\ revived.called /\ revived.threw
    /\ json.type = "object"
    /\ Len(Prop(json, "v").items) = 2 /\ Len(Prop(json, "e").items) = 2
    /\ ~ (\E k \in 1..2 : LET V == Prop(json, "v").items[k]
                          IN  V.type # "array" \/ Nth(V.items, 1).type # "string")
    /\ ~ EdgeEntryRejected(json, Prop(json, "e").items[1])
    /\ Nth(Prop(json, "e").items[2].items, 3) = JStr("v3")

\* C33: Graph.fromJSON throws on every input that holds an edge tuple whose
\* directed field (the fourth) is missing or is not a boolean.
C33_MalformedEdgeRejected ==
    (/\ revived.called
     /\ json.type = "object"
     /\ Prop(json, "e").type = "array"
     /\ \E k \in 1..Len(Prop(json, "e").items) :
            LET E == Prop(json, "e").items[k]
            IN  E.type = "array" /\ Nth(E.items, 4).type # "boolean")
    => revived.threw

\* ------------------------------------------------------------------- range
Abs(n) == IF n < 0 THEN 0 - n ELSE n

\* const [start, end, step] = ... of range(a, b?, c?); an argument that is
\* left out is undefined
RangeParams(as) ==
    IF Len(as) = 1 THEN [start |-> 0, end |-> as[1], step |-> 1]
    ELSE IF Len(as) = 2 THEN [start |-> as[1], end |-> as[2], step |-> 1]
    ELSE [start |-> as[1], end |-> as[2], step |-> Abs(as[3])]
\* const delta = end < start ? -step : step
RangeDelta(as) ==
    LET p == RangeParams(as) IN IF p.end < p.start THEN 0 - p.step ELSE p.step

RangeValues == (0 - 1)..MaxRange
RangeSteps == (0 - 2)..2
\* the generator is run until it returns or has yielded this many values
\* (range(a, b, 0) with a < b never returns)
RangeYields == MaxRange + 2

\* it = range(a), range(a, b) or range(a, b, c)
RangeInit ==
    /\ GraphInit
    /\ SolverIdle
    /\ BidiIdle
    /\ KruskalIdle
    /\ ContainersIdle
    /\ PathsIdle
    /\ JsonIdle
    /\ StreamIdle
    /\ deleted = {}
    /\ rangeArgs \in [1..1 -> RangeValues] \cup [1..2 -> RangeValues]
                     \cup {<<a, b, c>> : a \in RangeValues, b \in RangeValues,
                                         c \in RangeSteps}
    /\ rangeI = RangeParams(rangeArgs).start
    /\ rangeOut = <<>>
    /\ rangeDone = FALSE

RangeFrame == UNCHANGED <<gvars, svars, bvars, kvars, cvars, pvars, deleted,
                          jvars, evars, rangeArgs>>

\* it.next() while i < end: yield i; i += delta
RangeYield ==
    /\ rangeArgs # <<>>
    /\ ~ rangeDone
    /\ Len(rangeOut) < RangeYields
    /\ rangeI < RangeParams(rangeArgs).end
    /\ rangeOut' = Append(rangeOut, rangeI)
    /\ rangeI' = rangeI + RangeDelta(rangeArgs)
    /\ rangeDone' = FALSE
    /\ RangeFrame

\* it.next() when i < end is false: the generator returns
RangeReturn ==
    /\ rangeArgs # <<>>
    /\ ~ rangeDone
    /\ ~ (rangeI < RangeParams(rangeArgs).end)
    /\ rangeDone' = TRUE
    /\ UNCHANGED <<rangeI, rangeOut>>
    /\ RangeFrame

RangeNext == RangeYield \/ RangeReturn
SpecRange == RangeInit /\ [][RangeNext]_vars

\* C34: range(start, end) with end < start yields start, start - 1, ...,
\* end + 1; with start < end it yields start, start + step, ... while below
\* end; range(n) yields 0 .. n - 1.
C34_RangeYields ==
    LET p == RangeParams(rangeArgs) IN
    /\ (rangeDone /\ Len(rangeArgs) = 2 /\ p.end < p.start) =>
           rangeOut = [k \in 1..(p.start - p.end) |-> p.start - (k - 1)]
    /\ (rangeDone /\ p.start < p.end) =>
           /\ \A k \in 1..Len(rangeOut) : rangeOut[k] = p.start + (k - 1) * p.step
           /\ p.start + (Len(rangeOut) - 1) * p.step < p.end
           /\ p.start + Len(rangeOut) * p.step >= p.end
    /\ (rangeDone /\ Len(rangeArgs) = 1) =>
           rangeOut = [k \in 1..rangeArgs[1] |-> k - 1]

\* ------------------------------------------------------------- EventStream
\* Events are numbered in the order of the emit() calls.  A promise is a
\* number, #resolve is the resolve function of #promise.  The async generator
\* runs between two suspensions in one piece; emit() and end() are called
\* between the pieces.  Its positions:
\*   "none"     no consumer has begun to iterate
\*   "await"    suspended in `await this.#promise`
\*   "yield"    suspended in a yield of `yield* this.#events`, the consumer
\*              holds the event and runs the body of its loop
\*   "drained"  the array iterator of yield* has reported done; the generator
\*              awaits that result and has not yet run `this.#events = []`
\*   "returned" the generator has returned, the for-await-of loop is over

\* stream = new EventStream()
StreamInit ==
    /\ GraphInit
    /\ SolverIdle
    /\ BidiIdle
    /\ KruskalIdle
    /\ ContainersIdle
    /\ PathsIdle
    /\ JsonIdle
    /\ RangeIdle
    /\ deleted = {}
    /\ done = FALSE
    /\ events = <<>>
    /\ promise = 1
    /\ resolved = {}
    /\ gen = "none"
    /\ awaited = 0
    /\ iter = 0
    /\ received = <<>>
    /\ emitted = 0
    /\ startedAt = 0
    /\ endedAt = 0

StreamFrame == UNCHANGED <<gvars, svars, bvars, kvars, cvars, pvars, deleted,
                           jvars, rvars>>

\* stream.emit(event)
emit ==
    /\ promise > 0
    /\ emitted < MaxEmits
    /\ events' = Append(events, emitted + 1)
    /\ resolved' = resolved \cup {promise}
    /\ promise' = promise + 1
    /\ emitted' = emitted + 1
    /\ UNCHANGED <<done, gen, awaited, iter, received, startedAt, endedAt>>
    /\ StreamFrame

\* stream.end()
end ==
    /\ promise > 0
    /\ done' = TRUE
    /\ resolved' = resolved \cup {promise}
    /\ endedAt' = IF done THEN endedAt ELSE emitted
    /\ UNCHANGED <<events, promise, gen, awaited, iter, received, emitted, startedAt>>
    /\ StreamFrame

\* while (!this.#done) { await this.#promise ...
LoopHead ==
    IF done THEN gen' = "returned" /\ awaited' = awaited
    ELSE gen' = "await" /\ awaited' = promise

\* one next() of the array iterator of `yield* this.#events` from index k:
\* the iterator is live, it sees the events pushed since yield* began
Iterate(k) ==
    IF k <= Len(events)
    THEN /\ received' = Append(received, events[k])
         /\ iter' = k + 1
         /\ gen' = "yield"
    ELSE /\ gen' = "drained"
         /\ UNCHANGED <<received, iter>>

\* for await (const event of stream): the iterator is made and next() runs
\* the generator to its first await
GenStart ==
    /\ promise > 0
    /\ gen = "none"
    /\ LoopHead
    /\ startedAt' = emitted
    /\ UNCHANGED <<done, events, promise, resolved, iter, received, emitted, endedAt>>
    /\ StreamFrame

\* the awaited promise is resolved: yield* begins
GenResume ==
    /\ gen = "await"
    /\ awaited \in resolved
    /\ Iterate(1)
    /\ UNCHANGED <<done, events, promise, resolved, awaited, emitted, startedAt,
                   endedAt>>
    /\ StreamFrame

\* the consumer has run its loop body and calls next()
GenNext ==
    /\ gen = "yield"
    /\ Iterate(iter)
    /\ UNCHANGED <<done, events, promise, resolved, awaited, emitted, startedAt,
                   endedAt>>
    /\ StreamFrame

\* this.#events = [], and the loop test
GenClear ==
    /\ gen = "drained"
    /\ events' = <<>>
    /\ LoopHead
    /\ UNCHANGED <<done, promise, resolved, iter, received, emitted, startedAt,
                   endedAt>>
    /\ StreamFrame

StreamNext ==
    \/ emit
    \/ end
    \/ GenStart
    \/ GenResume
    \/ GenNext
    \/ GenClear
SpecStream == StreamInit /\ [][StreamNext]_vars

\* the events emitted after the consumer began to iterate and before end()
Window == (startedAt + 1)..endedAt

\* C35: every event emitted after the consumer began to iterate and before
\* end() is delivered to the consumer exactly once, and events are delivered
\* in the order of their emission: when the loop is over the window of
\* events is in `received`, and `received` is always strictly increasing.
C35_EveryEventDelivered ==
    /\ \A k \in 1..Len(received), l \in 1..Len(received) :
           k < l => received[k] < received[l]
    /\ gen = "returned" =>
           \A e \in Window : \E k \in 1..Len(received) : received[k] = e

\* C36: no event passed to emit() after end() is delivered to the consumer.
C36_NothingAfterEnd ==
    done => \A k \in 1..Len(received) : received[k] <= endedAt

\* C38: union(a, b) on elements of different sets attaches the root of lower
\* rank under the root of higher rank and changes no rank; on equal ranks it
\* attaches one root under the other and adds 1 to the rank of the root that
\* stays, and to no other; on elements of one set it changes no rank and
\* merges nothing.  Every index that is not a root has a rank strictly
\* smaller than its parent's.  (Stated of the call union(a, b) in every
\* state a DisjointSet reaches, for every two registered elements.)
C38_UnionByRank ==
    /\ \A j \in DOMAIN djs.parent :
           djs.parent[j] # j => djs.rank[j] < djs.rank[djs.parent[j]]
    /\ \A a \in MapKeys(djs.map), b \in MapKeys(djs.map) :
           LET d2 == union(djs, a, b)
               ra == RootOf(djs, MapGet(djs.map, a))
               rb == RootOf(djs, MapGet(djs.map, b))
               others(r) == \A j \in DOMAIN djs.rank : j # r => d2.rank[j] = djs.rank[j]
           IN  IF ra = rb
               THEN d2.rank = djs.rank /\ SameSets(d2, djs)
               ELSE IF djs.rank[ra] < djs.rank[rb]
               THEN /\ d2.parent[ra] = rb /\ d2.parent[rb] = rb
                    /\ d2.rank = djs.rank
               ELSE IF djs.rank[ra] > djs.rank[rb]
               THEN /\ d2.parent[rb] = ra /\ d2.parent[ra] = ra
                    /\ d2.rank = djs.rank
               ELSE \/ /\ d2.parent[rb] = ra /\ d2.parent[ra] = ra
                       /\ d2.rank[ra] = djs.rank[ra] + 1 /\ others(ra)
                    \/ /\ d2.parent[ra] = rb /\ d2.parent[rb] = rb
                       /\ d2.rank[rb] = djs.rank[rb] + 1 /\ others(rb)

\* union(a, b) has merged the two sets of a DisjointSet of three elements:
\* a root of rank 0 and a root of rank 1, which is the root of all three now
C38_Witness ==
    /\ last.op = "union" /\ ~ last.threw /\ last.len = 1
    /\ djs.mapCount = 3
    /\ Cardinality(DjsSets(djs)) = 1
    /\ \E r \in DOMAIN djs.rank :
          /\ djs.rank[r] = 1
          /\ \A j \in DOMAIN djs.parent : djs.parent[j] = r

\* C39: find(x) returns the root of the tree of x; afterwards every index
\* that was on the parent chain from x to the root points at the root; no
\* rank changes and the sets are the same.
C39_FindCompresses ==
    [][(last'.op = "find" /\ ~ last'.threw) =>
          /\ last'.n = RootOf(djs, last'.h)
          /\ \A j \in ChainOf(djs, last'.h) : djs'.parent[j] = RootOf(djs, last'.h)
          /\ djs'.rank = djs.rank
          /\ SameSets(djs', djs)]_vars

\* find(x) has returned for an x that was two parent links away from its
\* root, and x now points at the root
C39_Witness ==
    /\ last.op = "find" /\ ~ last.threw
    /\ last.len = 2
    /\ djs.parent[last.h] = last.n

\* C40: makeSet(x) for a registered x leaves the partition as it is: x stays
\* in one set with every element it was united with, and find(x) returns
\* the representative it returned before the call.
C40_MakeSetAgain ==
    [][(last'.op = "makeSet" /\ last'.pre) =>
          \A x \in MapKeys(djs.map) :
              MapGet(djs'.map, x) # MapGet(djs.map, x) =>
                  /\ find(djs', x).ret = find(djs, x).ret
                  /\ \A y \in MapKeys(djs.map) :
                         find(djs, x).ret = find(djs, y).ret
                             => find(djs', x).ret = find(djs', y).ret]_vars

\* C37: at every step of kruskalPresorted, two vertices have the same
\* DisjointSet representative iff the edges added to the forest so far
\* connect them; an edge is added iff the forest does not yet connect its
\* endpoints; the forest is acyclic at every step.
C37_KruskalLoopInvariant ==
    /\ []((pc \in {"loop", "done"} /\ last.op \in {"kruskalPresorted", "kruskalWithSort"})
          => /\ \A x \in GVertices, y \in GVertices :
                    (find(djs, vobj[x].id).ret = find(djs, vobj[y].id).ret)
                        <=> Connects(SetElems(forest), x, y)
             /\ Acyclic(SetElems(forest)))
    /\ [][(pc = "loop" /\ sortedEdges # <<>>) =>
            LET E == Head(sortedEdges)
            IN  (SetHas(forest', E) /\ ~ SetHas(forest, E))
                    <=> ~ Connects(SetElems(forest), eobj[E].u, eobj[E].v)]_vars

\* the loop is under way: an edge has been added, an edge between two
\* different vertices has been discarded, and an edge is still to come
C37_Witness ==
    /\ pc = "loop" /\ last.op = "kruskalPresorted"
    /\ sortedEdges # <<>>
    /\ forest # <<>>
    /\ \E e \in GEdges :
          /\ eobj[e].u # eobj[e].v
          /\ ~ SetHas(forest, e)
          /\ \A k \in 1..Len(sortedEdges) : sortedEdges[k] # e

====
